---- MODULE Spec2Model ----
(***************************************************************************)
(* Model of the fact/argument consolidation and scoring pipeline of        *)
(* 03_build_refs_and_master_csv.py.                                        *)
(*                                                                         *)
(* Representation                                                          *)
(*   - a text is a tuple of one-character strings, so that norm_space,     *)
(*     lower(), split and rfind are computed character by character;       *)
(*   - a CSV cell holding a number is a record [k |-> kind, v |-> value]:  *)
(*     kind "num" carries the value in thousandths, kinds "inf", "ninf"    *)
(*     and "nan" are the literals float() accepts ("inf", "1e400", "-inf", *)
(*     "nan"), kind "bad" is a text float() rejects and kind "empty" is    *)
(*     the empty cell;                                                     *)
(*   - a bucket value is an integer number of thousandths, a status is a   *)
(*     percentage, a strength is an integer number of 1e-4, an unrounded   *)
(*     tuned strength is an integer number of 1e-7;                        *)
(*   - hash_id is modelled collision free: the id of a text is the prefix, *)
(*     a dash and the digest length followed by the text itself.           *)
(***************************************************************************)
EXTENDS Integers, Sequences, FiniteSets, TLC

VARIABLES
    pc,                     \* position of the running script
    arg,                    \* argument of the helper being exercised
    ret,                    \* value the helper returned
    expanded,               \* number of event rows the first pass has expanded
    seed_file,              \* rows of facts_seed.csv
    argref_tuning,          \* argref_tuning.csv: arg_ref_id -> row
    rows,                   \* the event rows read so far (line 196)
    seed,                   \* canonical_text -> [id, locked] (line 193)
    topic_meta,             \* line 207
    fact_groups,            \* line 208
    fact_order,             \* insertion order of the keys of fact_groups
    fact_index_by_text,     \* line 209
    fact_side_counter,      \* line 212
    arg_lines,              \* line 210, arguments_master
    facts_master_rows,      \* line 315
    topics,                 \* the per-topic tables of lines 384-388
    disk,                   \* the files the other scripts keep: name -> content
    proc                    \* the locals of the function of those scripts in progress

inputs == <<seed_file, argref_tuning, rows>>
aggr == <<seed, topic_meta, fact_groups, fact_order, fact_index_by_text,
          fact_side_counter, arg_lines>>
vars == <<pc, arg, ret, expanded, inputs, aggr, facts_master_rows, topics, disk, proc>>

None == [k |-> "none"]

----------------------------------------------------------------------------
(* Text helpers                                                            *)

SP == " "

\* re \s
IsSpace(c) == c \in {" ", "\t"}

Last(s) == s[Len(s)]

Front(s) == SubSeq(s, 1, Len(s) - 1)

RECURSIVE lstrip(_)
lstrip(s) ==
    IF s = <<>> THEN <<>>
    ELSE IF IsSpace(Head(s)) THEN lstrip(Tail(s)) ELSE s

RECURSIVE rstrip(_)
rstrip(s) ==
    IF s = <<>> THEN <<>>
    ELSE IF IsSpace(Last(s)) THEN rstrip(Front(s)) ELSE s

strip(s) == rstrip(lstrip(s))

\* re.sub(r"\s+", " ", s.strip()): the text between the first and the last
\* non-space character, every maximal run of white space in it replaced by
\* one space (a white-space character is kept when it starts a run)
norm_space(s) ==
    LET solid == {j \in DOMAIN s : ~IsSpace(s[j])}
        lo == CHOOSE j \in solid : \A k \in 1..(j - 1) : IsSpace(s[k])
        hi == CHOOSE j \in solid : \A k \in (j + 1)..Len(s) : IsSpace(s[k])
        marked == [j \in DOMAIN s |-> <<j, s[j]>>]
        kept == SelectSeq(marked, LAMBDA p :
                    /\ lo <= p[1] /\ p[1] <= hi
                    /\ ~IsSpace(p[2]) \/ ~IsSpace(s[p[1] - 1]))
    IN  IF solid = {} THEN <<>>
        ELSE [j \in DOMAIN kept |-> IF IsSpace(kept[j][2]) THEN SP ELSE kept[j][2]]

\* str.lower() on the letters the inputs use
UpperCase == <<"A", "B", "C", "F", "G", "P", "R", "O", "N", "T", "X", "Y">>
LowerCase == <<"a", "b", "c", "f", "g", "p", "r", "o", "n", "t", "x", "y">>

LowerChar(c) ==
    IF \E i \in DOMAIN UpperCase : UpperCase[i] = c
    THEN LowerCase[CHOOSE i \in DOMAIN UpperCase : UpperCase[i] = c]
    ELSE c

lower(s) == [i \in DOMAIN s |-> LowerChar(s[i])]

\* re \w
IsWordChar(c) ==
    \/ \E i \in DOMAIN UpperCase : c \in {UpperCase[i], LowerCase[i]}
    \/ c \in {"0", "1", "2", "3", "4", "5", "6", "7", "8", "9", "_"}

\* str.replace(old, new) for a two-character old and a one-character new
RECURSIVE replace2(_, _, _)
replace2(s, old, new) ==
    IF Len(s) < 2 THEN s
    ELSE IF SubSeq(s, 1, 2) = old
         THEN <<new>> \o replace2(SubSeq(s, 3, Len(s)), old, new)
         ELSE <<Head(s)>> \o replace2(Tail(s), old, new)

\* re.split on a character class: the pieces between separators, empty
\* pieces included
RECURSIVE resplit(_, _, _)
resplit(s, seps, cur) ==
    IF s = <<>> THEN <<cur>>
    ELSE IF Head(s) \in seps
         THEN <<cur>> \o resplit(Tail(s), seps, <<>>)
         ELSE resplit(Tail(s), seps, Append(cur, Head(s)))

\* str.rfind(c): the 0-based index of the last c, -1 when there is none
rfind(s, c) ==
    IF \E j \in DOMAIN s : s[j] = c
    THEN (CHOOSE j \in DOMAIN s : s[j] = c /\ \A k \in (j + 1)..Len(s) : s[k] # c) - 1
    ELSE -1

\* s[:n]
Prefix(s, n) == SubSeq(s, 1, IF n < Len(s) THEN n ELSE Len(s))

RECURSIVE stripchar(_, _)
stripchar(s, c) ==
    IF s = <<>> THEN <<>>
    ELSE IF Head(s) = c THEN stripchar(Tail(s), c)
    ELSE IF Last(s) = c THEN stripchar(Front(s), c)
    ELSE s

RECURSIVE dashify(_)
dashify(s) ==
    IF s = <<>> THEN <<>>
    ELSE IF IsSpace(Head(s)) THEN <<"-">> \o dashify(lstrip(s))
    ELSE <<Head(s)>> \o dashify(Tail(s))

slugish(s) ==
    LET low == lower(s)
        kept == SelectSeq(low, LAMBDA c : IsWordChar(c) \/ IsSpace(c) \/ c = "-")
        slug == stripchar(dashify(kept), "-")
    IN  IF slug = <<>> THEN <<"n", "a">> ELSE slug

\* "PREFIX-" followed by the first n hexadecimal digits of the SHA-1 of s,
\* idealised as collision free: the digest is represented by s itself
hash_id(prefix, s, n) == <<prefix, "-", n>> \o s

split_facts(raw) ==
    LET txt == replace2(raw, <<"|", "|">>, "|")
        parts == resplit(txt, {"|", ";"}, <<>>)
        normed == [i \in DOMAIN parts |-> norm_space(parts[i])]
    IN  SelectSeq(normed, LAMBDA p : p # <<>>)

\* the cut length of line 98 and the safety threshold of line 100
RefNameMax == 120
RefNameMin == 60

\* the one character U+2026
Ellipsis == "..."

\* a variant without the safety threshold of lines 100-101
CutAtLastSpace(t) == rfind(Prefix(t, RefNameMax), SP)

\* lines 99-101: where a text longer than RefNameMax is cut
CutIndex(t) ==
    LET found == rfind(Prefix(t, RefNameMax), SP)
    IN  IF found < RefNameMin THEN RefNameMax ELSE found

\* lines 92-103
pick_arg_ref_name(argument_ref_name, argument_text) ==
    IF norm_space(argument_ref_name) # <<>>
    THEN norm_space(argument_ref_name)
    ELSE LET t == norm_space(argument_text)
             short == IF Len(t) > RefNameMax
                      THEN Append(Prefix(t, CutIndex(t)), Ellipsis)
                      ELSE t
         IN  IF short = <<>> THEN <<"(argument)">> ELSE short

canonical_fact(text) == norm_space(text)

TopicIdMax == 32

derive_topic_id(topic_name) ==
    LET base == slugish(norm_space(topic_name))
    IN  IF base # <<"n", "a">>
        THEN <<"T", "O", "P", "-">> \o Prefix(base, TopicIdMax)
        ELSE <<"T", "O", "P", "-", "N", "A">>

veracity_from_status_pct(status_pct) ==
    IF status_pct \in {0, 25, 50, 75, 100} THEN status_pct ELSE 0

----------------------------------------------------------------------------
(* Numeric cells                                                           *)

Num(n) == [k |-> "num", v |-> n]
Inf == [k |-> "inf", v |-> 0]
NInf == [k |-> "ninf", v |-> 0]
NaN == [k |-> "nan", v |-> 0]
Bad == [k |-> "bad", v |-> 0]
Empty == [k |-> "empty", v |-> 0]

\* float(x) succeeds: on a decimal literal and on the literals inf, -inf, nan
is_floaty(x) == x.k \in {"num", "inf", "ninf", "nan"}

to_float_or_default(x, dflt) == IF is_floaty(x) THEN x ELSE dflt

Abs(n) == IF n < 0 THEN -n ELSE n

\* the list of line 73, in thousandths
allowed == <<10, 50, 100, 250, 500, 600, 750, 900, 1000>>

Buckets == {allowed[i] : i \in DOMAIN allowed}

\* Inputs of at most three decimals lying exactly half way between two
\* buckets for which the IEEE-754 subtraction abs(a - x) is strictly smaller
\* for the upper bucket (0.55 -> 0.6, 0.675 -> 0.75); on the other midpoints
\* (0.03, 0.075, 0.175, 0.375, 0.825, 0.95) the lower bucket wins.
UpperWinsAt == {550, 675}

\* abs(a - x) as a sort key: a pair <<class, distance>>, class 1 when the
\* difference is infinite or nan (no bucket compares smaller than another)
DistKey(a, x) ==
    IF x.k = "num"
    THEN IF x.v \in UpperWinsAt /\ a > x.v THEN <<0, Abs(a - x.v) - 1>>
         ELSE <<0, Abs(a - x.v)>>
    ELSE <<1, 0>>

KeyLess(p, q) == p[1] < q[1] \/ (p[1] = q[1] /\ p[2] < q[2])

\* min(allowed, key = ...): the first element whose key no other undercuts
RECURSIVE MinBy(_, _, _, _)
MinBy(i, best, x, lst) ==
    IF i > Len(lst) THEN best
    ELSE IF KeyLess(DistKey(lst[i], x), DistKey(best, x))
         THEN MinBy(i + 1, lst[i], x, lst)
         ELSE MinBy(i + 1, best, x, lst)

to_bucket(x) ==
    IF x.k = "num" /\ x.v \in Buckets THEN x.v
    ELSE MinBy(2, allowed[1], x, allowed)

\* lines 230-232: to_bucket(to_float_or_default(cell, 0.50))
parse_score(cell) == to_bucket(to_float_or_default(cell, Num(500)))

----------------------------------------------------------------------------
(* Rounding                                                                *)

\* round(x, d) of Python on a value n / unit, to the multiple of unit that
\* is nearest, exact ties going to the even multiple.  Python rounds the
\* stored double, so a decimal tie is resolved by the double's binary
\* error unless the value is exactly representable; the strengths of the
\* specifications below are chosen so that every tie that occurs is
\* exactly representable, and RoundRatio lists the ratio that is not.
RoundDiv(n, unit) ==
    LET q == n \div unit
        r == n % unit
    IN  IF 2 * r > unit \/ (2 * r = unit /\ q % 2 = 1) THEN q + 1 ELSE q

----------------------------------------------------------------------------
(* Functions as dictionaries                                               *)

Put(f, key, val) == [x \in DOMAIN f \cup {key} |-> IF x = key THEN val ELSE f[x]]

EmptyDict == [x \in {} |-> 0]

RECURSIVE SeqSum(_)
SeqSum(q) == IF q = <<>> THEN 0 ELSE Head(q) + SeqSum(Tail(q))

RECURSIVE SeqMax(_)
SeqMax(q) ==
    IF Len(q) = 1 THEN q[1]
    ELSE LET m == SeqMax(Tail(q)) IN IF Head(q) >= m THEN Head(q) ELSE m

Range(q) == {q[i] : i \in DOMAIN q}

\* the distinct elements of q in the order of their first occurrence: the
\* key order of a dict filled by walking q
RECURSIVE FirstSeen(_, _)
FirstSeen(q, acc) ==
    IF q = <<>> THEN acc
    ELSE IF Head(q) \in Range(acc) THEN FirstSeen(Tail(q), acc)
    ELSE FirstSeen(Tail(q), Append(acc, Head(q)))

----------------------------------------------------------------------------
(* Seed and tuning files                                                   *)

load_seed_facts(file) ==
    LET RECURSIVE walk(_, _)
        walk(i, sd) ==
            IF i > Len(file) THEN sd
            ELSE LET row == file[i]
                     ct == canonical_fact(row.canonical_text)
                     fr == IF row.fact_ref_id # <<>> THEN row.fact_ref_id
                           ELSE hash_id("FREF", ct, "8")
                     locked == IF strip(row.locked) \in {<<"1">>, <<"t", "r", "u", "e">>,
                                                         <<"T", "r", "u", "e">>}
                               THEN 1 ELSE 0
                 IN  IF ct = <<>> THEN walk(i + 1, sd)
                     ELSE walk(i + 1, Put(sd, ct, [id |-> fr, locked |-> locked]))
    IN  walk(1, EmptyDict)

\* _to_float(s, default): the float of s, or default when float() raises
TuneFloat(cell, default) == IF is_floaty(cell) THEN cell ELSE default

\* tuned strengths are counted in 1e-7: a strength (1e-4) times a cell
\* (thousandths)
TunedUnit == 10000000

\* a variant of _clamp01 that forgets the lower bound
ClampUpperOnly(x) ==
    IF x.k \in {"inf", "nan"} THEN TunedUnit
    ELSE IF x.k = "ninf" THEN 0
    ELSE IF x.v > TunedUnit THEN TunedUnit ELSE x.v

\* max(0.0, min(1.0, float(x))), in 1e-7: min(1.0, nan) is 1.0 because no
\* comparison with nan is true, so nan clamps to 1.0
_clamp01(x) ==
    IF x.k \in {"inf", "nan"} THEN TunedUnit
    ELSE IF x.k = "ninf" THEN 0
    ELSE IF x.v > TunedUnit THEN TunedUnit
    ELSE IF x.v < 0 THEN 0 ELSE x.v

\* base_strength * mult in IEEE arithmetic; base is a strength in 1e-4
FloatTimes(base, mult) ==
    IF mult.k = "num" THEN Num(base * mult.v)
    ELSE IF mult.k = "nan" \/ base = 0 THEN NaN
    ELSE IF (mult.k = "inf") = (base > 0) THEN Inf ELSE NInf

\* a variant in which the multiplier also scales a fixed value
ApplyTuningScalingManual(base_strength, ref_id, tuning_map) ==
    IF ref_id \notin DOMAIN tuning_map
    THEN _clamp01(Num(base_strength * 1000))
    ELSE LET t == tuning_map[ref_id]
             manual == t.manual_strength
             mult == TuneFloat(t.multiplier, Num(1000))
         IN  IF manual.k = "num"
             THEN _clamp01(FloatTimes(manual.v * 10, mult))
             ELSE _clamp01(FloatTimes(base_strength, mult))

\* lines 171-178; the result is in 1e-7
_apply_tuning(base_strength, ref_id, tuning_map) ==
    IF ref_id \notin DOMAIN tuning_map
    THEN _clamp01(Num(base_strength * 1000))
    ELSE LET t == tuning_map[ref_id]
             manual == t.manual_strength
         IN  IF manual.k # "empty"
             THEN \* _to_float(manual, base_strength), in 1e-7
                  IF manual.k = "num" THEN _clamp01(Num(manual.v * 10000))
                  ELSE IF is_floaty(manual) THEN _clamp01(manual)
                  ELSE _clamp01(Num(base_strength * 1000))
             ELSE _clamp01(FloatTimes(base_strength,
                                      TuneFloat(t.multiplier, Num(1000))))

\* round(tuned, 4)
Round4Tuned(t) == RoundDiv(t, 1000)

----------------------------------------------------------------------------
(* main(), first pass: one argument x N facts => N lines (lines 214-312)   *)

\* fact_veracity_pct and strength of a line before the later passes set them
Unset == -1

PseudoFact == <<"(fait non specifie)">>

\* a variant that takes a row without side for a "pro" row
SideOfEmptyAsPro(topic_side) ==
    IF topic_side \in {<<"p", "r", "o">>, <<>>} THEN "pro" ELSE "con"

SideOf(topic_side) == IF topic_side = <<"p", "r", "o">> THEN "pro" ELSE "con"

\* lines 216-241: the locals computed from event row number i
EventLocals(ev, i) ==
    LET argument_text == norm_space(ev.argument_text)
        argument_ref_name == pick_arg_ref_name(ev.argument_ref_name, argument_text)
        topic_name == norm_space(ev.topic_name)
    IN  [row |-> i,
         email_id |-> norm_space(ev.email_id),
         topic_name |-> topic_name,
         topic_side |-> lower(norm_space(ev.topic_side)),
         argument_ref_name |-> argument_ref_name,
         hidden_topic_hint |-> norm_space(ev.hidden_topic_hint),
         hidden_topic_confidence |->
             to_float_or_default(ev.hidden_topic_confidence, Num(0)),
         relevance |-> parse_score(ev.relevance),
         reasoning_credibility |-> parse_score(ev.reasoning_credibility),
         impact_score |-> parse_score(ev.impact_score),
         topic_id |-> derive_topic_id(topic_name),
         arg_ref_id |-> hash_id("ARREF", argument_ref_name, "10")]

\* lines 243-252
UpdateTopicMeta(tmeta, L) ==
    LET tm == IF L.topic_id \in DOMAIN tmeta THEN tmeta[L.topic_id]
              ELSE [topic_name |-> L.topic_name, hidden_hints |-> <<>>,
                    hidden_conf |-> <<>>]
        tm2 == IF L.hidden_topic_hint # <<>>
               THEN [tm EXCEPT !.hidden_hints = Append(@, L.hidden_topic_hint),
                               !.hidden_conf = Append(@, L.hidden_topic_confidence)]
               ELSE tm
    IN  Put(tmeta, L.topic_id, tm2)

\* lines 260-269: a variant that keys every fact by the hash of its text
ResolveFactIgnoringSeed(ctext, sd, index) ==
    [frid |-> hash_id("FREF", ctext, "10"),
     locked |-> IF ctext \in DOMAIN sd THEN sd[ctext].locked ELSE 0,
     index |-> index]

\* lines 260-269
ResolveFact(ctext, sd, index) ==
    IF ctext \in DOMAIN sd
    THEN [frid |-> sd[ctext].id, locked |-> sd[ctext].locked, index |-> index]
    ELSE IF ctext \in DOMAIN index
         THEN [frid |-> index[ctext], locked |-> 0, index |-> index]
         ELSE [frid |-> hash_id("FREF", ctext, "10"), locked |-> 0,
               index |-> Put(index, ctext, hash_id("FREF", ctext, "10"))]

\* lines 270-272
CountSide(counter, frid, side) ==
    LET c == IF frid \in DOMAIN counter THEN counter[frid] ELSE [pro |-> 0, con |-> 0]
    IN  Put(counter, frid, [c EXCEPT ![side] = @ + 1])

\* lines 259-312: the body of the loop over facts_list; the line keeps, next
\* to the columns of arguments_master, the number of its event row and the
\* canonical text cited (the locals i and ctext)
ExpandFact(ag, L, ftxt, sd) ==
    LET ctext == canonical_fact(ftxt)
        rf == ResolveFact(ctext, sd, ag.fact_index_by_text)
        frid == rf.frid
        side == SideOf(L.topic_side)
        fg == IF frid \in DOMAIN ag.fact_groups THEN ag.fact_groups[frid]
              ELSE [canonical_text |-> ctext, locked |-> rf.locked,
                    first_seen_email_id |-> L.email_id,
                    last_seen_email_id |-> L.email_id]
        line == [row |-> L.row,
                 arg_ref_id |-> L.arg_ref_id,
                 arg_ref_name |-> L.argument_ref_name,
                 email_id |-> L.email_id,
                 topic_id |-> L.topic_id,
                 topic_side |-> SideOf(L.topic_side),
                 fact_ref_id |-> frid,
                 cited |-> ctext,
                 fact_veracity_pct |-> Unset,
                 relevance |-> L.relevance,
                 reasoning_credibility |-> L.reasoning_credibility,
                 impact_score |-> L.impact_score,
                 hidden_topic_hint |-> L.hidden_topic_hint,
                 hidden_topic_confidence |-> L.hidden_topic_confidence,
                 strength |-> Unset,
                 needs_review |-> 0]
    IN  [ag EXCEPT
            !.fact_index_by_text = rf.index,
            !.fact_side_counter = CountSide(@, frid, side),
            !.fact_order = IF frid \in DOMAIN ag.fact_groups THEN @ ELSE Append(@, frid),
            !.fact_groups = Put(@, frid, [fg EXCEPT !.last_seen_email_id = L.email_id]),
            !.arg_lines = Append(@, line)]

RECURSIVE ExpandFacts(_, _, _, _)
ExpandFacts(ag, L, facts_list, sd) ==
    IF facts_list = <<>> THEN ag
    ELSE ExpandFacts(ExpandFact(ag, L, Head(facts_list), sd), L, Tail(facts_list), sd)

\* a variant without the pseudo-fact of lines 255-257
ExpandEventWithoutPseudoFact(ag, ev, i, sd) ==
    LET L == EventLocals(ev, i)
    IN  ExpandFacts([ag EXCEPT !.topic_meta = UpdateTopicMeta(@, L)], L,
                    split_facts(ev.fact_texts), sd)

\* lines 215-312: one iteration of the loop over rows
ExpandEvent(ag, ev, i, sd) ==
    LET L == EventLocals(ev, i)
        found == split_facts(ev.fact_texts)
        facts_list == IF found = <<>> THEN <<PseudoFact>> ELSE found
    IN  ExpandFacts([ag EXCEPT !.topic_meta = UpdateTopicMeta(@, L)], L, facts_list, sd)

EmptyAggr ==
    [topic_meta |-> EmptyDict, fact_groups |-> EmptyDict, fact_order |-> <<>>,
     fact_index_by_text |-> EmptyDict, fact_side_counter |-> EmptyDict,
     arg_lines |-> <<>>]

RECURSIVE FirstPass(_, _, _, _)
FirstPass(ag, rws, i, sd) ==
    IF i > Len(rws) THEN ag
    ELSE FirstPass(ExpandEvent(ag, rws[i], i, sd), rws, i + 1, sd)

----------------------------------------------------------------------------
(* main(), fact status and strength passes (lines 314-366)                 *)

\* a variant in which any observed counter-argument demotes the fact
FactStatusLockIgnored(locked, con_n) ==
    IF con_n > 0 THEN [status_pct |-> 25, status_method |-> "contested"]
    ELSE IF locked = 1 THEN [status_pct |-> 100, status_method |-> "base_context"]
    ELSE [status_pct |-> 75, status_method |-> "close_match"]

\* lines 320-335
FactStatus(locked, con_n) ==
    IF locked = 1 THEN [status_pct |-> 100, status_method |-> "base_context"]
    ELSE IF con_n > 0 THEN [status_pct |-> 25, status_method |-> "contested"]
    ELSE [status_pct |-> 75, status_method |-> "close_match"]

\* lines 316-350
StatusPass(ag) ==
    [n \in DOMAIN ag.fact_order |->
        LET frid == ag.fact_order[n]
            fg == ag.fact_groups[frid]
            st == FactStatus(fg.locked, ag.fact_side_counter[frid].con)
        IN  [fact_ref_id |-> frid,
             canonical_text |-> fg.canonical_text,
             status_pct |-> st.status_pct,
             locked |-> fg.locked,
             status_method |-> st.status_method,
             pro_occurrences |-> ag.fact_side_counter[frid].pro,
             con_occurrences |-> ag.fact_side_counter[frid].con,
             first_seen_email_id |-> fg.first_seen_email_id,
             last_seen_email_id |-> fg.last_seen_email_id]]

\* line 353: the last row of a fact wins (there is one row per fact)
FactStatusPct(fmr, frid) ==
    IF \E n \in DOMAIN fmr : fmr[n].fact_ref_id = frid
    THEN fmr[CHOOSE n \in DOMAIN fmr : fmr[n].fact_ref_id = frid].status_pct
    ELSE 0

\* lines 361-364: veracity (percent) times three buckets (thousandths, all
\* multiples of 0.01), rounded to 4 decimals
StrengthOf(pct, relevance, reasoning_credibility, impact_score) ==
    RoundDiv(veracity_from_status_pct(pct) * (relevance \div 10)
                 * (reasoning_credibility \div 10) * (impact_score \div 10),
             10000)

\* a variant that scores a line with the status its fact had when the line
\* was pushed, i.e. from the lines up to and including it
StrengthPassAsOfLine(lines, fmr) ==
    [n \in DOMAIN lines |->
        LET line == lines[n]
            locked == \E m \in DOMAIN fmr : /\ fmr[m].fact_ref_id = line.fact_ref_id
                                            /\ fmr[m].locked = 1
            contested == \E m \in 1..n : /\ lines[m].fact_ref_id = line.fact_ref_id
                                         /\ lines[m].topic_side = "con"
            pct == IF locked THEN 100 ELSE IF contested THEN 25 ELSE 75
        IN  [line EXCEPT
                !.fact_veracity_pct = pct,
                !.strength = StrengthOf(pct, line.relevance,
                                        line.reasoning_credibility, line.impact_score),
                !.needs_review = IF contested /\ ~locked THEN 1 ELSE 0]]

\* lines 357-366
StrengthPass(lines, fmr) ==
    [n \in DOMAIN lines |->
        LET line == lines[n]
            pct == FactStatusPct(fmr, line.fact_ref_id)
            contested == \E m \in DOMAIN fmr :
                            /\ fmr[m].fact_ref_id = line.fact_ref_id
                            /\ fmr[m].status_method = "contested"
        IN  [line EXCEPT
                !.fact_veracity_pct = pct,
                !.strength = StrengthOf(pct, line.relevance,
                                        line.reasoning_credibility, line.impact_score),
                !.needs_review = IF contested THEN 1 ELSE 0]]

----------------------------------------------------------------------------
(* main(), topic aggregation (lines 381-550)                               *)

\* code-point order of the characters that occur in topic ids
CodeOrder == <<"-", "0", "1", "2", "3", "4", "5", "6", "7", "8", "9",
               "A", "N", "O", "P", "T", "_",
               "a", "b", "c", "f", "g", "n", "o", "p", "r", "t", "x", "y">>

Ord(c) == CHOOSE i \in DOMAIN CodeOrder : CodeOrder[i] = c

RECURSIVE TextLess(_, _)
TextLess(a, b) ==
    IF b = <<>> THEN FALSE
    ELSE IF a = <<>> THEN TRUE
    ELSE IF Head(a) = Head(b) THEN TextLess(Tail(a), Tail(b))
    ELSE Ord(Head(a)) < Ord(Head(b))

\* sorted(keys)
RECURSIVE SortedTexts(_)
SortedTexts(S) ==
    IF S = {} THEN <<>>
    ELSE LET least == CHOOSE a \in S : \A b \in S \ {a} : TextLess(a, b)
         IN  <<least>> \o SortedTexts(S \ {least})

\* lines 403-408: the lines of a topic and side, in order
LinesOf(lines, topic_id, side) ==
    SelectSeq(lines, LAMBDA l : l.topic_id = topic_id /\ l.topic_side = side)

\* a variant that opens an entry for every line instead of one per reference
ArgRefsOfEveryLine(lines, topic_id, side) ==
    LET ls == LinesOf(lines, topic_id, side)
    IN  [n \in DOMAIN ls |-> ls[n].arg_ref_id]

\* the keys of by_topic_side_argref[topic_id][side], in insertion order
ArgRefsOf(lines, topic_id, side) ==
    LET ls == LinesOf(lines, topic_id, side)
    IN  FirstSeen([n \in DOMAIN ls |-> ls[n].arg_ref_id], <<>>)

\* by_topic_side_argref[topic_id][side][ar]
StrengthsOf(lines, topic_id, side, ar) ==
    LET ls == SelectSeq(LinesOf(lines, topic_id, side), LAMBDA l : l.arg_ref_id = ar)
    IN  [n \in DOMAIN ls |-> ls[n].strength]

\* lines 391-393
ArgRefName(lines, ar) ==
    LET ls == SelectSeq(lines, LAMBDA l : l.arg_ref_id = ar)
    IN  IF ls = <<>> THEN <<"(argument)">> ELSE Last(ls).arg_ref_name

\* a variant that records the confidence of an event once, with its first
\* line
HiddenValsPerEvent(lines, topic_id) ==
    LET marked == [n \in DOMAIN lines |-> [line |-> lines[n], first |->
                      \A m \in 1..(n - 1) : lines[m].row # lines[n].row]]
        ls == SelectSeq(marked, LAMBDA x : /\ x.first
                                           /\ x.line.topic_id = topic_id
                                           /\ x.line.hidden_topic_hint # <<>>)
    IN  [n \in DOMAIN ls |-> ls[n].line.hidden_topic_confidence]

\* lines 414-417
HiddenVals(lines, topic_id) ==
    LET ls == SelectSeq(lines, LAMBDA l : l.topic_id = topic_id
                                          /\ l.hidden_topic_hint # <<>>)
    IN  [n \in DOMAIN ls |-> ls[n].hidden_topic_confidence]

\* v >= 0.50 on a float: false on nan
AtLeastHalf(v) == (v.k = "num" /\ v.v >= 500) \/ v.k = "inf"

\* the threshold of line 428, in thousandths
HiddenRatioMin == 400

\* the quotients len(sig) / len(vals) that lie halfway between two
\* thousandths and whose float is stored above the halfway point, so that
\* round(., 3) of line 427 goes up where the even neighbour is below
StoredAboveHalfway == {<<161, 400>>}

\* line 427: round(len(sig) / max(1, len(vals)), 3), in thousandths
RoundRatio(count, total) ==
    IF <<count, total>> \in StoredAboveHalfway
    THEN (1000 * count) \div total + 1
    ELSE RoundDiv(1000 * count, total)

\* lines 419-434; the ratio is in thousandths
_visibility_for_topic(vals) ==
    LET sig == SelectSeq(vals, AtLeastHalf)
        ratio == IF vals = <<>> THEN 0 ELSE RoundRatio(Len(sig), Len(vals))
    IN  [visibility |-> IF vals # <<>> /\ ratio >= HiddenRatioMin
                        THEN "hidden" ELSE "open",
         open_ratio_hidden_hints |-> ratio]

\* a variant that adds up every occurrence of a reference
FamilyStrengthAsSum(vals) == SeqSum(vals)

\* line 452: the family strength of a reference is the maximum of its lines
FamilyStrength(vals) == SeqMax(vals)

\* a variant that adds the tuned strength once per occurrence
TunedTotalPerLine(table) ==
    Round4Tuned(SeqSum([n \in DOMAIN table |->
                           table[n].count_occurrences * table[n].tuned_exact]))

\* lines 447, 456 and 471: tuned_total
TunedTotal(table) ==
    Round4Tuned(SeqSum([n \in DOMAIN table |-> table[n].tuned_exact]))

\* lines 442-471
side_args_summary(lines, topic_id, side_key, tuning) ==
    LET refs == ArgRefsOf(lines, topic_id, side_key)
        table == [n \in DOMAIN refs |->
                    LET ar == refs[n]
                        vals == StrengthsOf(lines, topic_id, side_key, ar)
                        smax == FamilyStrength(vals)
                        tuned == _apply_tuning(smax, ar, tuning)
                    IN  [topic_id |-> topic_id,
                         arg_ref_id |-> ar,
                         arg_ref_name |-> ArgRefName(lines, ar),
                         side |-> side_key,
                         count_occurrences |-> Len(vals),
                         sum_strength |-> SeqSum(vals),
                         max_strength |-> smax,
                         tuned_exact |-> tuned,
                         tuned_strength |-> Round4Tuned(tuned)]]
    IN  [base_total |-> SeqSum([n \in DOMAIN table |-> table[n].max_strength]),
         tuned_total |-> TunedTotal(table),
         per_argref |-> table]

\* a variant of the sort that keeps the order of the table
KeptInTableOrder(lst) == lst

\* sorted(lst, key = tuned, reverse = True): stable, highest first
RECURSIVE SortedByTuned(_)
SortedByTuned(lst) ==
    IF lst = <<>> THEN <<>>
    ELSE LET top == CHOOSE n \in DOMAIN lst :
                        /\ \A m \in DOMAIN lst : lst[m].tuned_exact <= lst[n].tuned_exact
                        /\ \A m \in 1..(n - 1) : lst[m].tuned_exact < lst[n].tuned_exact
             rest == SubSeq(lst, 1, top - 1) \o SubSeq(lst, top + 1, Len(lst))
         IN  <<lst[top]>> \o SortedByTuned(rest)

\* lines 437-550: the body of the loop for one topic
TopicRows(lines, tmeta, topic_id, tuning) ==
    LET vis == _visibility_for_topic(HiddenVals(lines, topic_id))
        pro == side_args_summary(lines, topic_id, "pro", tuning)
        con == side_args_summary(lines, topic_id, "con", tuning)
        name == IF topic_id \in DOMAIN tmeta THEN tmeta[topic_id].topic_name
                ELSE <<"(sujet)">>
    IN  [topic_id |-> topic_id,
         topic_name |-> name,
         visibility |-> vis.visibility,
         open_ratio_hidden_hints |-> vis.open_ratio_hidden_hints,
         pro_total_strength |-> pro.base_total,
         con_total_strength |-> con.base_total,
         pro_total_strength_tuned |-> pro.tuned_total,
         con_total_strength_tuned |-> con.tuned_total,
         pro_unique_args |-> Cardinality({pro.per_argref[n].arg_ref_id :
                                             n \in DOMAIN pro.per_argref}),
         con_unique_args |-> Cardinality({con.per_argref[n].arg_ref_id :
                                             n \in DOMAIN con.per_argref}),
         pro_total_tuned |-> pro.tuned_total,
         con_total_tuned |-> con.tuned_total,
         net_score |-> pro.tuned_total - con.tuned_total,
         argrefs_table |-> pro.per_argref \o con.per_argref,
         pro_argrefs |-> SortedByTuned(pro.per_argref),
         con_argrefs |-> SortedByTuned(con.per_argref)]

\* lines 437-550: one record per topic, in sorted topic_id order; the record
\* holds the topic's row of topics_rollup and of topics_conclusions and its
\* rows of topics_argrefs_table
TopicsPass(lines, tmeta, tuning) ==
    LET ids == SortedTexts({lines[n].topic_id : n \in DOMAIN lines})
    IN  [n \in DOMAIN ids |-> TopicRows(lines, tmeta, ids[n], tuning)]

\* main() as a whole, for a given events file, seed file and tuning file
RunMain(rws, sfile, tuning) ==
    LET sd == load_seed_facts(sfile)
        ag == FirstPass(EmptyAggr, rws, 1, sd)
        fmr == StatusPass(ag)
        lines == StrengthPass(ag.arg_lines, fmr)
    IN  [facts_master_rows |-> fmr,
         arg_lines |-> lines,
         topics |-> TopicsPass(lines, ag.topic_meta, tuning)]

----------------------------------------------------------------------------
(* The files main() reads                                                  *)

\* largest number of rows of the events file
MaxEvents == 2

tPro == <<"p", "r", "o">>
tCon == <<"c", "o", "n">>
tF == <<"f">>
tG == <<"g">>
tX == <<"x">>
tY == <<"y">>

\* an event row every other row of the model differs from in one column:
\* a "pro" argument x on topic "Ta" citing fact f with full scores, no hint
BaseEvent ==
    [email_id |-> <<"m">>,
     topic_name |-> <<"T", "a">>,
     topic_side |-> tPro,
     ref |-> [argument_ref_name |-> tX, argument_text |-> <<"t">>],
     fact_texts |-> tF,
     relevance |-> Num(1000),
     reasoning_credibility |-> Num(1000),
     impact_score |-> Num(1000),
     hint |-> [hidden_topic_hint |-> <<>>, hidden_topic_confidence |-> Empty]]

EventColumns ==
    [email_id : {<<"m">>},
     topic_name : {<<"T", "a">>, <<"t", "a", " ">>, <<"T", "b">>},
     topic_side : {tPro, <<"P", "r", "o", " ">>, tCon, <<>>, <<"n", "o">>},
     ref : {[argument_ref_name |-> tX, argument_text |-> <<"t">>],
            [argument_ref_name |-> <<>>, argument_text |-> <<" ", "x">>],
            [argument_ref_name |-> tY, argument_text |-> <<"t">>]},
     fact_texts : {tF, <<"f", "|", "|", " ", "g">>, <<"g", " ", ";">>, <<>>,
                   <<"|", " ", ";">>},
     relevance : {Num(1000), Num(300)},
     reasoning_credibility : {Num(1000), Bad},
     impact_score : {Num(1000)},
     hint : {[hidden_topic_hint |-> <<>>, hidden_topic_confidence |-> Empty],
             [hidden_topic_hint |-> <<"h">>, hidden_topic_confidence |-> Num(900)],
             [hidden_topic_hint |-> <<"h", " ">>, hidden_topic_confidence |-> Bad]}]

ColumnNames == {"email_id", "topic_name", "topic_side", "ref", "fact_texts",
                "relevance", "reasoning_credibility", "impact_score", "hint"}

\* the rows the events file may hold: the base row and every row that
\* differs from it in exactly one column, plus the "con" row of argument y
EventShapes ==
    {e \in EventColumns :
        \/ Cardinality({c \in ColumnNames : e[c] # BaseEvent[c]}) <= 1
        \/ /\ e.topic_side = tCon
           /\ e.ref.argument_ref_name = tY
           /\ {c \in ColumnNames : e[c] # BaseEvent[c]} = {"topic_side", "ref"}}

\* a row as csv.DictReader returns it
AsRow(e) ==
    [email_id |-> e.email_id,
     topic_name |-> e.topic_name,
     topic_side |-> e.topic_side,
     argument_ref_name |-> e.ref.argument_ref_name,
     argument_text |-> e.ref.argument_text,
     fact_texts |-> e.fact_texts,
     relevance |-> e.relevance,
     reasoning_credibility |-> e.reasoning_credibility,
     impact_score |-> e.impact_score,
     hidden_topic_hint |-> e.hint.hidden_topic_hint,
     hidden_topic_confidence |-> e.hint.hidden_topic_confidence]

EventRows == {AsRow(e) : e \in EventShapes}

\* facts_seed.csv: absent; f locked under a supplied id and g listed without
\* id; f and g listed under one id with different locked flags
SeedFiles ==
    {<<>>,
     <<[canonical_text |-> <<"f", " ">>, fact_ref_id |-> <<"S", "1">>, locked |-> <<"1">>],
       [canonical_text |-> tG, fact_ref_id |-> <<>>, locked |-> <<"0">>]>>,
     <<[canonical_text |-> tG, fact_ref_id |-> <<"S", "2">>, locked |-> <<"0">>],
       [canonical_text |-> tF, fact_ref_id |-> <<"S", "2">>, locked |-> <<"t", "r", "u", "e">>]>>}

RefX == hash_id("ARREF", tX, "10")
RefY == hash_id("ARREF", tY, "10")

TuningRow(m, k) == [manual_strength |-> m, multiplier |-> k]

\* argref_tuning.csv as _read_tuning_csv returns it: absent; a fixed value
\* for x; a multiplier for x and a malformed row for y
TuningFiles ==
    {EmptyDict,
     (RefX :> TuningRow(Num(500), Num(2000))),
     (RefX :> TuningRow(Empty, Num(400))) @@ (RefY :> TuningRow(Bad, Num(3000)))}

\* the pairs of seed file and tuning file main() is run with
InputFiles ==
    {f \in SeedFiles \X TuningFiles :
        \/ f[1] = <<>> /\ f[2] = EmptyDict
        \/ f[1] # <<>> /\ f[1][1].canonical_text # tG /\ DOMAIN f[2] = {RefX}
        \/ f[1] # <<>> /\ f[1][1].canonical_text = tG /\ RefY \in DOMAIN f[2]}

----------------------------------------------------------------------------
(* The run of main() as a state machine                                    *)

\* no file of the other scripts exists and none of their functions runs
DiskIdle == disk = EmptyDict /\ proc = None

PipelineIdle ==
    /\ expanded = 0
    /\ seed_file = <<>>
    /\ argref_tuning = EmptyDict
    /\ rows = <<>>
    /\ seed = EmptyDict
    /\ topic_meta = EmptyDict
    /\ fact_groups = EmptyDict
    /\ fact_order = <<>>
    /\ fact_index_by_text = EmptyDict
    /\ fact_side_counter = EmptyDict
    /\ arg_lines = <<>>
    /\ facts_master_rows = <<>>
    /\ topics = <<>>

Init ==
    /\ pc = "load_seed"
    /\ arg = None
    /\ ret = None
    /\ expanded = 0
    /\ \E f \in InputFiles : seed_file = f[1] /\ argref_tuning = f[2]
    /\ rows = <<>>
    /\ seed = EmptyDict
    /\ topic_meta = EmptyDict
    /\ fact_groups = EmptyDict
    /\ fact_order = <<>>
    /\ fact_index_by_text = EmptyDict
    /\ fact_side_counter = EmptyDict
    /\ arg_lines = <<>>
    /\ facts_master_rows = <<>>
    /\ topics = <<>>
    /\ DiskIdle

\* line 193
LoadSeed ==
    /\ pc = "load_seed"
    /\ seed' = load_seed_facts(seed_file)
    /\ pc' = "read"
    /\ UNCHANGED <<disk, proc, arg, ret, expanded, inputs, topic_meta, fact_groups, fact_order,
                   fact_index_by_text, fact_side_counter, arg_lines,
                   facts_master_rows, topics>>

\* lines 199-200: the reader yields one more row
ReadRow ==
    /\ pc = "read"
    /\ Len(rows) < MaxEvents
    /\ \E ev \in EventRows : rows' = Append(rows, ev)
    /\ UNCHANGED <<disk, proc, pc, arg, ret, expanded, seed_file, argref_tuning, aggr,
                   facts_master_rows, topics>>

\* lines 202-204: the file held no row
ExitNoEvents ==
    /\ pc = "read"
    /\ rows = <<>>
    /\ pc' = "exit"
    /\ UNCHANGED <<disk, proc, arg, ret, expanded, inputs, aggr, facts_master_rows, topics>>

\* the reader is exhausted and the aggregation starts
EndOfFile ==
    /\ pc = "read"
    /\ rows # <<>>
    /\ pc' = "expand"
    /\ UNCHANGED <<disk, proc, arg, ret, expanded, inputs, aggr, facts_master_rows, topics>>

CurrentAggr ==
    [topic_meta |-> topic_meta, fact_groups |-> fact_groups,
     fact_order |-> fact_order, fact_index_by_text |-> fact_index_by_text,
     fact_side_counter |-> fact_side_counter, arg_lines |-> arg_lines]

\* lines 215-312: one iteration of the first pass
ExpandRow ==
    /\ pc = "expand"
    /\ expanded < Len(rows)
    /\ LET ag == ExpandEvent(CurrentAggr, rows[expanded + 1], expanded + 1, seed)
       IN  /\ topic_meta' = ag.topic_meta
           /\ fact_groups' = ag.fact_groups
           /\ fact_order' = ag.fact_order
           /\ fact_index_by_text' = ag.fact_index_by_text
           /\ fact_side_counter' = ag.fact_side_counter
           /\ arg_lines' = ag.arg_lines
    /\ expanded' = expanded + 1
    /\ UNCHANGED <<disk, proc, pc, arg, ret, inputs, seed, facts_master_rows, topics>>

\* lines 314-350
FactStatusPass ==
    /\ pc = "expand"
    /\ expanded = Len(rows)
    /\ facts_master_rows' = StatusPass(CurrentAggr)
    /\ pc' = "strength"
    /\ UNCHANGED <<disk, proc, arg, ret, expanded, inputs, aggr, topics>>

\* lines 352-366
ArgStrengthPass ==
    /\ pc = "strength"
    /\ arg_lines' = StrengthPass(arg_lines, facts_master_rows)
    /\ pc' = "topics"
    /\ UNCHANGED <<disk, proc, arg, ret, expanded, inputs, seed, topic_meta, fact_groups, fact_order,
                   fact_index_by_text, fact_side_counter, facts_master_rows, topics>>

\* lines 381-550
TopicsAggregation ==
    /\ pc = "topics"
    /\ topics' = TopicsPass(arg_lines, topic_meta, argref_tuning)
    /\ pc' = "done"
    /\ UNCHANGED <<disk, proc, arg, ret, expanded, inputs, aggr, facts_master_rows>>

Next ==
    \/ LoadSeed
    \/ ReadRow
    \/ ExitNoEvents
    \/ EndOfFile
    \/ ExpandRow
    \/ FactStatusPass
    \/ ArgStrengthPass
    \/ TopicsAggregation

Spec == Init /\ [][Next]_vars

Done == pc = "done"

----------------------------------------------------------------------------
(* Properties of the run of main()                                         *)

RECURSIVE SumOver(_, _)
SumOver(S, f) ==
    IF S = {} THEN 0
    ELSE LET x == CHOOSE y \in S : TRUE IN f[x] + SumOver(S \ {x}, f)

Count(q, P(_)) == Cardinality({n \in DOMAIN q : P(q[n])})

StatusKnown == pc \in {"strength", "topics", "done"}

StrengthKnown == pc \in {"topics", "done"}

\* C1: every facts_master row has status_pct 100 when its locked flag is 1,
\* else 25 when its con_occurrences is positive, else 75, the con
\* occurrences being the "con" argument lines that cite the fact; the status
\* is never outside {25, 75, 100}.
C1_StatusRule ==
    StatusKnown =>
        \A n \in DOMAIN facts_master_rows :
            LET r == facts_master_rows[n]
                cons == Count(arg_lines, LAMBDA l : l.fact_ref_id = r.fact_ref_id
                                                    /\ l.topic_side = "con")
            IN  /\ r.con_occurrences = cons
                /\ r.locked = 1 => r.status_pct = 100
                /\ r.locked # 1 /\ cons > 0 => r.status_pct = 25
                /\ r.locked # 1 /\ cons = 0 => r.status_pct = 75
                /\ r.status_pct \in {25, 75, 100}

\* a locked fact that "con" lines cite, next to a contested and an
\* unchallenged fact
C1_Witness ==
    /\ Done
    /\ \E n \in DOMAIN facts_master_rows :
          facts_master_rows[n].locked = 1 /\ facts_master_rows[n].con_occurrences > 0

\* C2: the strength of every argument line is veracity x relevance x
\* reasoning_credibility x impact_score rounded to 4 decimals, the veracity
\* being 0.25, 0.75 or 1.0 for the status 25, 75 or 100 of the fact the line
\* cites, and that status follows from all the lines of the run, those after
\* the line included; fact_veracity_pct is that status.
WholeRunStatus(frid) ==
    IF \E n \in DOMAIN facts_master_rows :
          facts_master_rows[n].fact_ref_id = frid /\ facts_master_rows[n].locked = 1
    THEN 100
    ELSE IF \E m \in DOMAIN arg_lines :
               arg_lines[m].fact_ref_id = frid /\ arg_lines[m].topic_side = "con"
         THEN 25 ELSE 75

C2_Strength ==
    StrengthKnown =>
        \A n \in DOMAIN arg_lines :
            LET l == arg_lines[n]
                pct == WholeRunStatus(l.fact_ref_id)
                \* the product in units of 1e-8
                exact == pct * (l.relevance \div 10) * (l.reasoning_credibility \div 10)
                             * (l.impact_score \div 10)
            IN  /\ l.fact_veracity_pct = pct
                /\ 10000 * l.strength - 5000 <= exact
                /\ exact <= 10000 * l.strength + 5000
                /\ \E m \in DOMAIN facts_master_rows :
                      /\ facts_master_rows[m].fact_ref_id = l.fact_ref_id
                      /\ facts_master_rows[m].status_pct = pct

\* a "pro" line scored as contested because of a "con" line that comes later
C2_Witness ==
    /\ Done
    /\ \E n, m \in DOMAIN arg_lines :
          /\ n < m
          /\ arg_lines[n].topic_side = "pro" /\ arg_lines[m].topic_side = "con"
          /\ arg_lines[n].fact_ref_id = arg_lines[m].fact_ref_id
          /\ \A k \in 1..(m - 1) : arg_lines[k].topic_side = "pro"
          /\ arg_lines[n].fact_veracity_pct = 25
          /\ arg_lines[n].strength > 0

\* the argument references of a topic and side, as a set
RefsOn(lines, topic_id, side) ==
    {lines[n].arg_ref_id : n \in {m \in DOMAIN lines :
                                     lines[m].topic_id = topic_id
                                     /\ lines[m].topic_side = side}}

\* the largest strength among the lines of a reference on a topic and side
MaxOn(lines, topic_id, side, ar) ==
    LET S == {lines[n].strength : n \in {m \in DOMAIN lines :
                                            /\ lines[m].topic_id = topic_id
                                            /\ lines[m].topic_side = side
                                            /\ lines[m].arg_ref_id = ar}}
    IN  CHOOSE x \in S : \A y \in S : y <= x

Totals(tps) ==
    {<<tps[n].topic_id, tps[n].pro_total_strength, tps[n].con_total_strength,
       tps[n].pro_total_strength_tuned, tps[n].con_total_strength_tuned,
       tps[n].pro_total_tuned, tps[n].con_total_tuned, tps[n].net_score>> :
        n \in DOMAIN tps}

\* C3: in the rollup a reference adds to a side's base total the maximum
\* strength of its lines on that topic and side, and a run on the events
\* file with a copy of one of its rows appended yields the same base
\* totals, tuned totals and net_score for every topic.
C3_MaxPerReference ==
    Done =>
        /\ \A n \in DOMAIN topics :
              LET t == topics[n].topic_id
              IN  /\ topics[n].pro_total_strength =
                        SumOver(RefsOn(arg_lines, t, "pro"),
                                [ar \in RefsOn(arg_lines, t, "pro") |->
                                    MaxOn(arg_lines, t, "pro", ar)])
                  /\ topics[n].con_total_strength =
                        SumOver(RefsOn(arg_lines, t, "con"),
                                [ar \in RefsOn(arg_lines, t, "con") |->
                                    MaxOn(arg_lines, t, "con", ar)])
        /\ \A k \in DOMAIN rows :
              Totals(RunMain(Append(rows, rows[k]), seed_file, argref_tuning).topics)
                  = Totals(topics)

\* a reference uttered twice on one topic and side with different strengths
C3_Witness ==
    /\ Done
    /\ \E n, m \in DOMAIN arg_lines :
          /\ n # m
          /\ arg_lines[n].arg_ref_id = arg_lines[m].arg_ref_id
          /\ arg_lines[n].topic_id = arg_lines[m].topic_id
          /\ arg_lines[n].topic_side = arg_lines[m].topic_side
          /\ 0 < arg_lines[n].strength
          /\ arg_lines[n].strength < arg_lines[m].strength

\* the row of topics_argrefs_table of a topic, side and reference
TableRows(t, side, ar) ==
    {n \in DOMAIN t.argrefs_table :
        /\ t.argrefs_table[n].side = side
        /\ t.argrefs_table[n].arg_ref_id = ar}

TunedOf(t, side, ar) ==
    t.argrefs_table[CHOOSE n \in TableRows(t, side, ar) : TRUE].tuned_exact

RoundedTo4(total, exact) ==
    /\ 1000 * total - 500 <= exact
    /\ exact <= 1000 * total + 500

\* C4: for every topic net_score = pro_total_tuned - con_total_tuned, each
\* side total being the sum (reported to 4 decimals) of the tuned family
\* strength over the distinct references of that side; without a tuning
\* table the tuned totals equal the base totals of topics_rollup.
C4_NetScore ==
    Done =>
        \A n \in DOMAIN topics :
            LET t == topics[n]
                pro == RefsOn(arg_lines, t.topic_id, "pro")
                con == RefsOn(arg_lines, t.topic_id, "con")
            IN  /\ t.net_score = t.pro_total_tuned - t.con_total_tuned
                /\ RoundedTo4(t.pro_total_tuned,
                              SumOver(pro, [ar \in pro |-> TunedOf(t, "pro", ar)]))
                /\ RoundedTo4(t.con_total_tuned,
                              SumOver(con, [ar \in con |-> TunedOf(t, "con", ar)]))
                /\ t.pro_total_strength_tuned = t.pro_total_tuned
                /\ t.con_total_strength_tuned = t.con_total_tuned
                /\ DOMAIN argref_tuning = {} =>
                      /\ t.pro_total_tuned = t.pro_total_strength
                      /\ t.con_total_tuned = t.con_total_strength

\* a topic with two references on one side, one of them uttered twice, both
\* sides present and a tuning row that changes a strength
C4_Witness ==
    /\ Done
    /\ \E n \in DOMAIN topics :
          LET t == topics[n]
          IN  /\ \/ t.pro_unique_args = 2 /\ t.con_unique_args = 0
                 \/ t.pro_unique_args = 1 /\ t.con_unique_args = 1
              /\ \E m \in DOMAIN t.argrefs_table :
                    /\ t.argrefs_table[m].count_occurrences = 2
                       \/ t.con_unique_args = 1
                    /\ t.argrefs_table[m].tuned_strength
                          # t.argrefs_table[m].max_strength
              /\ t.net_score # 0

\* the id given to a cited text by lines 262-269 and 137
ExpectedFactId(text) ==
    IF \E k \in DOMAIN seed_file : norm_space(seed_file[k].canonical_text) = text
    THEN LET k == CHOOSE j \in DOMAIN seed_file :
                     /\ norm_space(seed_file[j].canonical_text) = text
                     /\ \A j2 \in DOMAIN seed_file :
                           norm_space(seed_file[j2].canonical_text) = text => j2 <= j
         IN  IF seed_file[k].fact_ref_id # <<>> THEN seed_file[k].fact_ref_id
             ELSE <<"FREF", "-", "8">> \o text
    ELSE <<"FREF", "-", "10">> \o text

Expanded == pc \in {"expand", "strength", "topics", "done"}

\* C5: two fact citations with equal whitespace-normalised text get the
\* same fact_ref_id, which is the id the seed list supplies for the text
\* and the hash of the text otherwise; facts_master has exactly one row per
\* fact_ref_id, and the row's pro_occurrences + con_occurrences is the
\* number of argument lines citing the fact.
C5_FactIdentity ==
    /\ Expanded =>
          /\ \A n, m \in DOMAIN arg_lines :
                arg_lines[n].cited = arg_lines[m].cited
                    => arg_lines[n].fact_ref_id = arg_lines[m].fact_ref_id
          /\ \A n \in DOMAIN arg_lines :
                arg_lines[n].fact_ref_id = ExpectedFactId(arg_lines[n].cited)
    /\ StatusKnown =>
          /\ \A n, m \in DOMAIN facts_master_rows :
                facts_master_rows[n].fact_ref_id = facts_master_rows[m].fact_ref_id
                    => n = m
          /\ {facts_master_rows[n].fact_ref_id : n \in DOMAIN facts_master_rows}
                = {arg_lines[n].fact_ref_id : n \in DOMAIN arg_lines}
          /\ \A n \in DOMAIN facts_master_rows :
                LET r == facts_master_rows[n]
                IN  r.pro_occurrences + r.con_occurrences
                        = Count(arg_lines, LAMBDA l : l.fact_ref_id = r.fact_ref_id)

\* one fact cited from two events whose fact_texts cells differ, under an
\* id the seed list supplies
C5_Witness ==
    /\ Done
    /\ \E n, m \in DOMAIN arg_lines :
          /\ arg_lines[n].row # arg_lines[m].row
          /\ rows[arg_lines[n].row].fact_texts # rows[arg_lines[m].row].fact_texts
          /\ arg_lines[n].cited = arg_lines[m].cited
          /\ arg_lines[n].fact_ref_id \in {<<"S", "1">>, <<"S", "2">>}
          /\ \E k \in DOMAIN facts_master_rows :
                /\ facts_master_rows[k].fact_ref_id = arg_lines[n].fact_ref_id
                /\ facts_master_rows[k].pro_occurrences
                      + facts_master_rows[k].con_occurrences >= 2

\* C6: argument lines with the same canonical short name share one
\* arg_ref_id; topics_argrefs_table has exactly one row per topic, side and
\* arg_ref_id, whose count_occurrences is the number of argument lines of
\* the reference on that topic and side; pro_unique_args and
\* con_unique_args are the numbers of distinct references of each side.
C6_ArgReferences ==
    /\ Expanded =>
          \A n, m \in DOMAIN arg_lines :
              arg_lines[n].arg_ref_name = arg_lines[m].arg_ref_name
                  => arg_lines[n].arg_ref_id = arg_lines[m].arg_ref_id
    /\ Done =>
          /\ {topics[n].topic_id : n \in DOMAIN topics}
                = {arg_lines[n].topic_id : n \in DOMAIN arg_lines}
          /\ \A n \in DOMAIN topics :
                LET t == topics[n]
                IN  /\ \A side \in {"pro", "con"} :
                          /\ \A ar \in RefsOn(arg_lines, t.topic_id, side) :
                                /\ Cardinality(TableRows(t, side, ar)) = 1
                                /\ \A k \in TableRows(t, side, ar) :
                                      t.argrefs_table[k].count_occurrences =
                                          Count(arg_lines, LAMBDA l :
                                                    /\ l.topic_id = t.topic_id
                                                    /\ l.topic_side = side
                                                    /\ l.arg_ref_id = ar)
                          /\ \A k \in DOMAIN t.argrefs_table :
                                t.argrefs_table[k].side = side =>
                                    t.argrefs_table[k].arg_ref_id
                                        \in RefsOn(arg_lines, t.topic_id, side)
                    /\ t.pro_unique_args
                          = Cardinality(RefsOn(arg_lines, t.topic_id, "pro"))
                    /\ t.con_unique_args
                          = Cardinality(RefsOn(arg_lines, t.topic_id, "con"))

\* a reference named explicitly in one event and derived from the argument
\* text in another, counted twice in one row of the table
C6_Witness ==
    /\ Done
    /\ \E n, m \in DOMAIN arg_lines :
          /\ rows[arg_lines[n].row].argument_ref_name
                # rows[arg_lines[m].row].argument_ref_name
          /\ arg_lines[n].arg_ref_id = arg_lines[m].arg_ref_id
    /\ \E n \in DOMAIN topics :
          \E k \in DOMAIN topics[n].argrefs_table :
              topics[n].argrefs_table[k].count_occurrences = 2


\* the row gives a side other than "pro" once trimmed and lower-cased
NotPro(ev) == lower(strip(ev.topic_side)) # tPro

\* C19: an event whose topic_side, trimmed and lower-cased, is empty or
\* anything other than "pro" is a "con" event: its lines have the side
\* "con", every fact it cites counts a con occurrence and, when not locked,
\* is contested with status 25, and its argument reference is a "con"
\* reference of its topic, counted and summed on the con side only.
C19_NonProIsCon ==
    Done =>
        \A i \in DOMAIN rows :
            NotPro(rows[i]) =>
                /\ \E n \in DOMAIN arg_lines : arg_lines[n].row = i
                /\ \A n \in DOMAIN arg_lines :
                      arg_lines[n].row = i =>
                          LET l == arg_lines[n]
                          IN  /\ l.topic_side = "con"
                              /\ \E m \in DOMAIN facts_master_rows :
                                    LET f == facts_master_rows[m]
                                    IN  /\ f.fact_ref_id = l.fact_ref_id
                                        /\ f.con_occurrences >= 1
                                        /\ f.locked = 0 =>
                                              /\ f.status_pct = 25
                                              /\ f.status_method = "contested"
                                              /\ l.fact_veracity_pct = 25
                              /\ \E k \in DOMAIN topics :
                                    LET t == topics[k]
                                        uttered(side) ==
                                            Count(arg_lines, LAMBDA x :
                                                /\ x.topic_id = l.topic_id
                                                /\ x.arg_ref_id = l.arg_ref_id
                                                /\ NotPro(rows[x.row]) = (side = "con"))
                                    IN  /\ t.topic_id = l.topic_id
                                        /\ t.con_total_strength >= l.strength
                                        /\ \E e \in DOMAIN t.argrefs_table :
                                              /\ t.argrefs_table[e].side = "con"
                                              /\ t.argrefs_table[e].arg_ref_id = l.arg_ref_id
                                              /\ t.argrefs_table[e].max_strength >= l.strength
                                        /\ \A e \in DOMAIN t.argrefs_table :
                                              t.argrefs_table[e].arg_ref_id = l.arg_ref_id =>
                                                  t.argrefs_table[e].count_occurrences
                                                      = uttered(t.argrefs_table[e].side)

\* a row without side and a row with the side "no", citing a fact that is
\* not locked and a "pro" row's reference
C19_Witness ==
    /\ Done
    /\ \E i, j \in DOMAIN rows :
          /\ rows[i].topic_side = <<>>
          /\ rows[j].topic_side = <<"n", "o">>
    /\ \E m \in DOMAIN facts_master_rows :
          facts_master_rows[m].locked = 0 /\ facts_master_rows[m].status_pct = 25
    /\ \E k \in DOMAIN topics : topics[k].con_total_strength > 0


\* the fact segments of a cell: the maximal stretches free of "|" and ";"
\* that hold something else than white space
FactSegments(raw) ==
    {w \in (DOMAIN raw) \X (DOMAIN raw) :
        /\ w[1] <= w[2]
        /\ \A n \in w[1]..w[2] : raw[n] \notin {"|", ";"}
        /\ \E n \in w[1]..w[2] : ~IsSpace(raw[n])
        /\ w[1] = 1 \/ raw[w[1] - 1] \in {"|", ";"}
        /\ w[2] = Len(raw) \/ raw[w[2] + 1] \in {"|", ";"}}

LinesDue(ev) ==
    IF FactSegments(ev.fact_texts) = {} THEN 1 ELSE Cardinality(FactSegments(ev.fact_texts))

\* C21: every event row expanded so far has as many argument lines as it
\* has non-empty fact segments, and exactly one line, citing the pseudo-fact,
\* when it has none; the number of lines is the sum of these numbers.
C21_NoEventLost ==
    /\ \A i \in 1..expanded :
          /\ Count(arg_lines, LAMBDA l : l.row = i) = LinesDue(rows[i])
          /\ Count(arg_lines, LAMBDA l : l.row = i) >= 1
          /\ FactSegments(rows[i].fact_texts) = {} =>
                \A n \in DOMAIN arg_lines :
                    arg_lines[n].row = i => arg_lines[n].cited = PseudoFact
          /\ FactSegments(rows[i].fact_texts) # {} =>
                \A n \in DOMAIN arg_lines :
                    arg_lines[n].row = i => arg_lines[n].cited # PseudoFact
    /\ Len(arg_lines) = SumOver(1..expanded, [i \in 1..expanded |-> LinesDue(rows[i])])

\* an event citing two facts next to one whose cell holds separators only
C21_Witness ==
    /\ Done
    /\ \E i, j \in DOMAIN rows :
          /\ rows[i].fact_texts = <<"f", "|", "|", " ", "g">>
          /\ rows[j].fact_texts = <<"|", " ", ";">>
    /\ Len(arg_lines) = 3

----------------------------------------------------------------------------
(* Specification exercising the score parsing of lines 230-232             *)

\* largest magnitude, in thousandths, of the decimal cells tried
MaxCell == 1300

ScoreCells == {Num(n) : n \in -MaxCell..MaxCell} \cup {Inf, NInf, NaN, Bad, Empty}

BucketInit ==
    /\ pc = "score_cell"
    /\ arg \in ScoreCells
    /\ ret = None
    /\ PipelineIdle
    /\ DiskIdle

ParseScore ==
    /\ pc = "score_cell"
    /\ ret' = parse_score(arg)
    /\ pc' = "score_done"
    /\ UNCHANGED <<disk, proc, arg, expanded, inputs, aggr, facts_master_rows, topics>>

BucketNext == ParseScore

BucketSpec == BucketInit /\ [][BucketNext]_vars

\* C9: the relevance, reasoning_credibility and impact_score recorded are
\* members of the bucket set for every input: a value of the set is kept, any
\* other numeric value becomes the nearest bucket (values below 0.01 become
\* 0.01, values above 1 become 1.00), a missing or non-numeric value becomes
\* 0.50.
C9_SnapToBucket ==
    pc = "score_done" =>
        /\ ret \in Buckets
        /\ arg.k = "num" /\ arg.v \in Buckets => ret = arg.v
        /\ arg.k = "num" => \A b \in Buckets : Abs(ret - arg.v) <= Abs(b - arg.v)
        /\ (arg.k = "num" /\ arg.v < 10) \/ arg.k = "ninf" => ret = 10
        /\ (arg.k = "num" /\ arg.v > 1000) \/ arg.k = "inf" => ret = 1000
        /\ arg.k \in {"empty", "bad"} => ret = 500

----------------------------------------------------------------------------
(* Specification exercising _apply_tuning (lines 162-178)                  *)

\* the base strengths tried divide [0, 1], the range of a strength, in this
\* many steps
BaseSteps == 80

TuneBases == {(10000 * n) \div BaseSteps : n \in 0..BaseSteps}

TuneCells == {Empty, Bad, NaN, Inf, NInf, Num(-1000), Num(0), Num(200),
              Num(400), Num(1000), Num(1200), Num(3000)}

\* the tuning table: no row for the reference, or any row
TuneMaps == {EmptyDict} \cup {(RefX :> TuningRow(m, k)) : m \in TuneCells, k \in TuneCells}

TuneInit ==
    /\ pc = "tune_call"
    /\ arg \in [base_strength : TuneBases, tuning_map : TuneMaps]
    /\ ret = None
    /\ PipelineIdle
    /\ DiskIdle

\* lines 454 and 468: tuned, and the tuned_strength written to the table
ApplyTuning ==
    /\ pc = "tune_call"
    /\ LET tuned == _apply_tuning(arg.base_strength, RefX, arg.tuning_map)
       IN  ret' = [tuned |-> tuned, tuned_strength |-> Round4Tuned(tuned)]
    /\ pc' = "tune_done"
    /\ UNCHANGED <<disk, proc, arg, expanded, inputs, aggr, facts_master_rows, topics>>

TuneNext == ApplyTuning

TuneSpec == TuneInit /\ [][TuneNext]_vars

\* C7: for any base strength and any tuning row (manual_strength or
\* multiplier negative, above 1, empty or non-numeric) the tuned strength
\* reported for the reference lies in [0, 1].
C7_TunedInUnitInterval ==
    pc = "tune_done" =>
        /\ 0 <= ret.tuned /\ ret.tuned <= 10000000
        /\ 0 <= ret.tuned_strength /\ ret.tuned_strength <= 10000

\* a negative fixed value, a product above 1, a negative product and a
\* non-numeric row are each clamped
C7_Witness ==
    /\ pc = "tune_done"
    /\ arg.base_strength > 0
    /\ RefX \in DOMAIN arg.tuning_map
    /\ LET t == arg.tuning_map[RefX]
       IN  \/ t.manual_strength = Num(-1000) /\ ret.tuned_strength = 0
           \/ /\ t.manual_strength = Empty /\ t.multiplier = Num(-1000)
              /\ ret.tuned_strength = 0


\* a value in 1e-7 brought into [0, 1]
IntoUnit(v) == IF v < 0 THEN 0 ELSE IF v > TunedUnit THEN TunedUnit ELSE v

\* C20: _apply_tuning keeps the base strength when the table has no row for
\* the reference; with a non-empty manual_strength the result is that value
\* brought into [0, 1] whatever the multiplier, a non-numeric
\* manual_strength giving the base strength; otherwise the result is base
\* times multiplier brought into [0, 1], an empty or non-numeric multiplier
\* counting as 1.0.
C20_TuningPrecedence ==
    pc = "tune_done" =>
        LET base == arg.base_strength * 1000
        IN  IF RefX \notin DOMAIN arg.tuning_map THEN ret.tuned = base
            ELSE LET manual == arg.tuning_map[RefX].manual_strength
                     mult == arg.tuning_map[RefX].multiplier
                 IN  /\ manual.k = "num" => ret.tuned = IntoUnit(manual.v * 10000)
                     /\ manual.k = "inf" => ret.tuned = TunedUnit
                     /\ manual.k = "ninf" => ret.tuned = 0
                     /\ manual.k = "bad" => ret.tuned = base
                     /\ manual.k # "empty" =>
                           \A k \in TuneCells :
                               _apply_tuning(arg.base_strength, RefX,
                                             (RefX :> TuningRow(manual, k))) = ret.tuned
                     /\ manual.k = "empty" /\ mult.k = "num" =>
                           ret.tuned = IntoUnit(arg.base_strength * mult.v)
                     /\ manual.k = "empty" /\ mult.k \in {"empty", "bad"} =>
                           ret.tuned = base

\* a fixed value of 0.2 next to a multiplier of 3 on a base strength of 0.5
C20_Witness ==
    /\ pc = "tune_done"
    /\ arg.base_strength = 5000
    /\ RefX \in DOMAIN arg.tuning_map
    /\ arg.tuning_map[RefX] = TuningRow(Num(200), Num(3000))
    /\ ret.tuned = 2000000

----------------------------------------------------------------------------
(* Specification exercising _visibility_for_topic (lines 419-434)          *)

\* largest number of hint confidences recorded for the topic
MaxHints == 403

\* up to this many confidences every mix of high and low values is tried
SmallHints == 20

\* the confidences recorded: some at 0.9 followed by some at 0.2
HintVals(n, high) == [j \in 1..n |-> IF j <= high THEN Num(900) ELSE Num(200)]

\* the mixes tried: all of them for a short list, and for a long list those
\* whose share of high values is within half a point of 40%
HintMixes ==
    {m \in (0..MaxHints) \X (0..MaxHints) :
        /\ m[2] <= m[1]
        /\ m[1] <= SmallHints \/ Abs(1000 * m[2] - 400 * m[1]) <= 5 * m[1]}

VisInit ==
    /\ pc = "vis_call"
    /\ \E m \in HintMixes : arg = HintVals(m[1], m[2])
    /\ ret = None
    /\ PipelineIdle
    /\ DiskIdle

VisibilityForTopic ==
    /\ pc = "vis_call"
    /\ ret' = _visibility_for_topic(arg)
    /\ pc' = "vis_done"
    /\ UNCHANGED <<disk, proc, arg, expanded, inputs, aggr, facts_master_rows, topics>>

VisNext == VisibilityForTopic

VisSpec == VisInit /\ [][VisNext]_vars

\* C8: the topic is "hidden" if and only if at least 40% of the hint
\* confidences recorded for it are >= 0.50; otherwise, also when none was
\* recorded, it is "open".
C8_HiddenIffFortyPercent ==
    pc = "vis_done" =>
        LET high == Cardinality({j \in DOMAIN arg : arg[j].v >= 500})
        IN  /\ ret.visibility \in {"hidden", "open"}
            /\ ret.visibility = "hidden"
                  <=> (Len(arg) > 0 /\ 100 * high >= 40 * Len(arg))

----------------------------------------------------------------------------
(* Specification exercising pick_arg_ref_name (lines 92-103)               *)

\* largest number of words of the argument text
MaxWords == 3

WordLengths == {1, 58, 59, 60, 61, 120, 121}

Word(n) == [j \in 1..n |-> "a"]

\* the words joined by sep
RECURSIVE Join(_, _)
Join(ws, sep) ==
    IF ws = <<>> THEN <<>>
    ELSE IF Len(ws) = 1 THEN Word(ws[1])
    ELSE Word(ws[1]) \o sep \o Join(Tail(ws), sep)

WordLists == UNION {[1..n -> WordLengths] : n \in 0..MaxWords}

NameInit ==
    /\ pc = "name_call"
    /\ \E ws \in WordLists : \E sep \in {<<" ">>, <<" ", "\t">>} :
          \E nm \in {<<" ">>, <<" ", "x">>} :
              arg = [argument_ref_name |-> nm, argument_text |-> Join(ws, sep) \o sep]
    /\ ret = None
    /\ PipelineIdle
    /\ DiskIdle

\* line 223
PickArgRefName ==
    /\ pc = "name_call"
    /\ ret' = pick_arg_ref_name(arg.argument_ref_name, norm_space(arg.argument_text))
    /\ pc' = "name_done"
    /\ UNCHANGED <<disk, proc, arg, expanded, inputs, aggr, facts_master_rows, topics>>

NameNext == PickArgRefName

NameSpec == NameInit /\ [][NameNext]_vars

NameDerived == pc = "name_done" /\ norm_space(arg.argument_ref_name) = <<>>

\* C10 as stated: with an empty argument_ref_name the derived name is the
\* whitespace-normalised argument text unchanged when it has at most 120
\* characters; otherwise it is a prefix of at most 120 characters that ends
\* at a word boundary (the cut falls on a space of the text), followed by an
\* ellipsis.
C10_CutAtWordBoundary ==
    NameDerived =>
        LET t == norm_space(arg.argument_text)
        IN  IF Len(t) <= 120 THEN ret = t
            ELSE \E cut \in 0..120 :
                    /\ t[cut + 1] = " "
                    /\ ret = Append(SubSeq(t, 1, cut), Ellipsis)

\* C10 amended: the derived name is "(argument)" when the normalised text
\* is empty and the text unchanged when it has 1 to 120 characters;
\* otherwise it is a prefix followed by an ellipsis, cut at the last space
\* among the first 120 characters when that space is at index 60 or more,
\* and cut after exactly 120 characters, wherever that falls, when there is
\* no such space.
C10_CutAtWordBoundaryOrAt120 ==
    NameDerived =>
        LET t == norm_space(arg.argument_text)
            spaces == {j \in 60..119 : j < Len(t) /\ t[j + 1] = " "}
        IN  IF t = <<>> THEN ret = <<"(argument)">>
            ELSE IF Len(t) <= 120 THEN ret = t
            ELSE IF spaces # {}
                 THEN \E cut \in spaces :
                         /\ \A j \in spaces : j <= cut
                         /\ ret = Append(SubSeq(t, 1, cut), Ellipsis)
                 ELSE ret = Append(SubSeq(t, 1, 120), Ellipsis)

\* a long text whose only space among the first 120 characters comes before
\* index 60, cut in the middle of its second word
C10_Witness ==
    /\ NameDerived
    /\ Len(norm_space(arg.argument_text)) > 120
    /\ Len(ret) = 121
    /\ norm_space(arg.argument_text)[121] # " "
    /\ \E j \in 1..59 : norm_space(arg.argument_text)[j] = " "

----------------------------------------------------------------------------
(* Specification exercising pack_arglist and the HTML lists (lines 535-640) *)

Digits == <<"0", "1", "2", "3", "4", "5", "6", "7", "8", "9">>

\* the digits of n, a number below 10000, without its trailing zeros
RECURSIVE Decimals(_, _)
Decimals(n, width) ==
    IF width = 0 \/ n = 0 THEN <<>>
    ELSE LET unit == 10 ^ (width - 1)
         IN  <<Digits[(n \div unit) + 1]>> \o Decimals(n % unit, width - 1)

\* str() of a float of at most 4 decimals between 0 and 1, given in 1e-4
FloatStr(n) ==
    IF n >= 10000 THEN <<"1", ".", "0">>
    ELSE IF n = 0 THEN <<"0", ".", "0">>
    ELSE <<"0", ".">> \o Decimals(n, 4)

\* sep.join(parts)
RECURSIVE join(_, _)
join(parts, sep) ==
    IF parts = <<>> THEN <<>>
    ELSE IF Len(parts) = 1 THEN parts[1]
    ELSE parts[1] \o sep \o join(Tail(parts), sep)

\* str.split(sep) for a two-character sep: the pieces between the leftmost
\* non-overlapping occurrences, empty pieces included
RECURSIVE split2(_, _, _)
split2(s, sep, cur) ==
    IF s = <<>> THEN <<cur>>
    ELSE IF Len(s) >= 2 /\ SubSeq(s, 1, 2) = sep
         THEN <<cur>> \o split2(SubSeq(s, 3, Len(s)), sep, <<>>)
         ELSE split2(Tail(s), sep, Append(cur, Head(s)))

\* line 538: one entry of the packed text
PackedEntry(e) ==
    e.arg_ref_id \o <<":", ":">> \o e.arg_ref_name \o <<":", ":">>
        \o FloatStr(Round4Tuned(e.tuned_exact))

\* lines 536-538
pack_arglist(lst) ==
    LET ordered == SortedByTuned(lst)
    IN  join([n \in DOMAIN ordered |-> PackedEntry(ordered[n])],
             <<" ", "|", "|", " ">>)

\* lines 619-631
parse_list(s) ==
    IF strip(s) = <<>> THEN <<>>
    ELSE LET pieces == split2(s, <<"|", "|">>, <<>>)
             parts == SelectSeq([n \in DOMAIN pieces |-> strip(pieces[n])],
                                LAMBDA part : part # <<>>)
             split == [n \in DOMAIN parts |->
                          LET raw == split2(parts[n], <<":", ":">>, <<>>)
                          IN  [k \in DOMAIN raw |-> strip(raw[k])]]
         IN  SelectSeq(split, LAMBDA bits : Len(bits) = 3)

\* largest number of argument references on one side of a topic
MaxRefs == 3

\* the ids of the references, in the order the table lists them
PackIds == <<(<<"A">>), (<<"B">>), (<<"C">>), (<<"D">>), (<<"E">>)>>

\* reference names as pick_arg_ref_name returns them
PackNames == {<<"a">>, <<"a", " ", "b">>, <<"a", ":", "b">>,
              <<"a", ":", ":", "b">>, <<"a", "|", "|", "b">>}

\* unrounded tuned strengths: 0.25, 0.25004 and 1.0
PackTuned == {2500000, 2500400, 10000000}

PackInit ==
    /\ pc = "pack_call"
    /\ \E n \in 0..MaxRefs :
          \E nm \in [1..n -> PackNames] : \E st \in [1..n -> PackTuned] :
              arg = [k \in 1..n |-> [arg_ref_id |-> PackIds[k],
                                     arg_ref_name |-> nm[k],
                                     tuned_exact |-> st[k]]]
    /\ ret = None
    /\ PipelineIdle
    /\ DiskIdle

\* lines 547-548 and 632-640: the packed cell of topics_conclusions and the
\* items of the column of the HTML block
PackAndRender ==
    /\ pc = "pack_call"
    /\ ret' = [listed |-> SortedByTuned(arg),
               packed |-> pack_arglist(arg),
               items |-> parse_list(pack_arglist(arg))]
    /\ pc' = "pack_done"
    /\ UNCHANGED <<disk, proc, arg, expanded, inputs, aggr, facts_master_rows, topics>>

PackNext == PackAndRender

PackSpec == PackInit /\ [][PackNext]_vars

\* the tuned strength of the reference an HTML item shows
ItemTuned(item) ==
    LET n == CHOOSE k \in DOMAIN arg : arg[k].arg_ref_id = item[1]
    IN  arg[n].tuned_exact

\* C11: the list written to topics_conclusions holds the references of the
\* side ordered by tuned strength, highest first: no reference comes before
\* one with a strictly higher tuned strength, in the packed cell and among
\* the items the HTML column shows.
C11_SortedByTunedStrength ==
    pc = "pack_done" =>
        /\ Len(ret.listed) = Len(arg)
        /\ \A k \in DOMAIN arg : \E n \in DOMAIN ret.listed : ret.listed[n] = arg[k]
        /\ \A n, m \in DOMAIN ret.listed :
              n < m => ret.listed[n].tuned_exact >= ret.listed[m].tuned_exact
        /\ ret.packed = join([n \in DOMAIN ret.listed |-> PackedEntry(ret.listed[n])],
                             <<" ", "|", "|", " ">>)
        /\ \A n, m \in DOMAIN ret.items :
              (/\ n < m
               /\ \E k \in DOMAIN arg : arg[k].arg_ref_id = ret.items[n][1]
               /\ \E k \in DOMAIN arg : arg[k].arg_ref_id = ret.items[m][1])
                  => ItemTuned(ret.items[n]) >= ItemTuned(ret.items[m])

\* three references listed weakest first in the table, shown strongest first
C11_Witness ==
    /\ pc = "pack_done"
    /\ Len(arg) = 3
    /\ arg[1].tuned_exact < arg[2].tuned_exact
    /\ arg[2].tuned_exact < arg[3].tuned_exact
    /\ Len(ret.items) = 3
    /\ ret.items[1][1] = arg[3].arg_ref_id
    /\ ret.items[3][1] = arg[1].arg_ref_id

\* C12: whatever the names, every reference of the list is exactly one item
\* of the HTML column: parsing the packed text gives back every packed
\* entry, in order.
C12_HtmlComplete ==
    pc = "pack_done" =>
        ret.items = [n \in DOMAIN ret.listed |->
                        <<ret.listed[n].arg_ref_id, ret.listed[n].arg_ref_name,
                          FloatStr(Round4Tuned(ret.listed[n].tuned_exact))>>]

----------------------------------------------------------------------------
(* fetch_email.py: the incremental export of messages by UID               *)

\* number of incremental runs, of correspondents of OTHERS and of messages
\* of the mailbox
MaxRuns == 2
MaxOthers == 2
MaxUid == 2

Uids == 1..MaxUid

\* the elements of a set of numbers in ascending order, as a search returns
\* its UIDs
RECURSIVE Ascending(_)
Ascending(S) ==
    IF S = {} THEN <<>>
    ELSE LET least == CHOOSE x \in S : \A y \in S : x <= y
         IN  <<least>> \o Ascending(S \ {least})

\* lines 60-69: write_email and save_processed_id append to their file
AppendTo(d, name, x) == [d EXCEPT ![name] = Append(@, x)]

\* lines 71-79: save_error_id appends the UID unless the file holds it
save_error_id(d, uid) ==
    IF uid \in Range(d.error_ids) THEN d ELSE AppendTo(d, "error_ids", uid)

\* lines 66-69: the set of the UIDs of _processed_ids.txt
load_processed_ids(d) == Range(d.processed_ids)

FetchInit ==
    /\ pc = "fetch_idle"
    /\ arg = 0
    /\ ret = None
    /\ PipelineIdle
    /\ disk = [emails |-> <<>>, processed_ids |-> <<>>, error_ids |-> <<>>]
    /\ proc = None

\* lines 250-255: a run starts and reads _processed_ids.txt once; arg counts
\* the runs started
FetchStart ==
    /\ pc = "fetch_idle"
    /\ arg < MaxRuns
    /\ arg' = arg + 1
    /\ proc' = [processed_ids |-> load_processed_ids(disk), other |-> 0,
                all_uids |-> <<>>]
    /\ pc' = "fetch_loop"
    /\ UNCHANGED <<ret, expanded, inputs, aggr, facts_master_rows, topics, disk>>

\* lines 257-269: the search for the next correspondent returns any set of
\* UIDs (none when it fails); those of the set read at the start are dropped
SearchOther ==
    /\ pc = "fetch_loop"
    /\ proc.all_uids = <<>>
    /\ proc.other < MaxOthers
    /\ \E found \in SUBSET Uids :
          proc' = [proc EXCEPT
                      !.other = @ + 1,
                      !.all_uids = Ascending(found \ proc.processed_ids)]
    /\ UNCHANGED <<pc, arg, ret, expanded, inputs, aggr, facts_master_rows, topics, disk>>

\* lines 271-300 and 310-361: the next UID of the list is fetched and
\* handled: the fetch or the parsing fails, or the message lies outside the
\* years kept, or its block is written to emails_YYYY.txt
HandleUid ==
    /\ pc = "fetch_loop"
    /\ proc.all_uids # <<>>
    /\ LET uid == Head(proc.all_uids)
       IN  \/ disk' = save_error_id(disk, uid)
           \/ disk' = AppendTo(disk, "processed_ids", uid)
           \/ disk' = AppendTo(AppendTo(disk, "emails", uid), "processed_ids", uid)
    /\ proc' = [proc EXCEPT !.all_uids = Tail(@)]
    /\ UNCHANGED <<pc, arg, ret, expanded, inputs, aggr, facts_master_rows, topics>>

\* lines 302-308: every correspondent has been treated
FetchEnd ==
    /\ pc = "fetch_loop"
    /\ proc.all_uids = <<>>
    /\ proc.other = MaxOthers
    /\ pc' = "fetch_idle"
    /\ proc' = None
    /\ UNCHANGED <<arg, ret, expanded, inputs, aggr, facts_master_rows, topics, disk>>

FetchNext == FetchStart \/ SearchOther \/ HandleUid \/ FetchEnd

FetchSpec == FetchInit /\ [][FetchNext]_vars

\* C13: over any sequence of incremental runs, and whatever sets of UIDs
\* the searches return, the emails_YYYY.txt files hold at most one block
\* per message UID.
C13_UidWrittenOnce ==
    pc \in {"fetch_idle", "fetch_loop"} =>
        \A uid \in Uids :
            Cardinality({n \in DOMAIN disk.emails : disk.emails[n] = uid}) <= 1

----------------------------------------------------------------------------
(* autopn/events.py: EventsSink                                            *)

\* largest number of write() calls and of EventsSink objects constructed
MaxWrites == 3
MaxSinks == 2

\* the row writeheader() writes
HeaderRow == [header |-> "EVENT_FIELDS"]

\* the keyword arguments of a write() call: an e-mail id and a score
SinkKwargs == [email_id : {<<"m", "1">>, <<"m", "2">>},
               relevance : {Num(500), Bad, Empty}]

\* lines 57-63: the row written for the keyword arguments; a score that
\* float() rejects is written as the empty cell
SinkRow(kwargs) ==
    [email_id |-> kwargs.email_id,
     relevance |-> IF is_floaty(kwargs.relevance) THEN kwargs.relevance ELSE Empty]

\* a variant of _ensure_header that rewrites the file whenever a sink is made
EnsureHeaderAlways(d) == [exists |-> TRUE, rows |-> <<HeaderRow>>]

\* lines 50-54: the file is created with the header when it does not exist
_ensure_header(d) ==
    IF ~d.exists THEN [exists |-> TRUE, rows |-> <<HeaderRow>>] ELSE d

\* the events file did not exist, no sink was made and write() was not
\* called; arg lists the calls of write() made so far
SinkInit ==
    /\ pc = "sink"
    /\ arg = <<>>
    /\ ret = None
    /\ PipelineIdle
    /\ disk = [exists |-> FALSE, rows |-> <<>>]
    /\ proc = [sinks |-> 0]

\* lines 45-48: EventsSink(path)
NewSink ==
    /\ pc = "sink"
    /\ proc.sinks < MaxSinks
    /\ disk' = _ensure_header(disk)
    /\ proc' = [proc EXCEPT !.sinks = @ + 1]
    /\ UNCHANGED <<pc, arg, ret, expanded, inputs, aggr, facts_master_rows, topics>>

\* lines 56-66: write(**kwargs) on one of the sinks made
SinkWrite ==
    /\ pc = "sink"
    /\ proc.sinks > 0
    /\ Len(arg) < MaxWrites
    /\ \E kwargs \in SinkKwargs :
          /\ arg' = Append(arg, kwargs)
          /\ disk' = [exists |-> TRUE, rows |-> Append(disk.rows, SinkRow(kwargs))]
    /\ UNCHANGED <<pc, ret, expanded, inputs, aggr, facts_master_rows, topics, proc>>

SinkNext == NewSink \/ SinkWrite

SinkSpec == SinkInit /\ [][SinkNext]_vars

\* C14: once a sink has been made on a path that held no file, the file is
\* one header row followed by one data row per write() call in call order,
\* after any sequence of constructions and writes; no row once written is
\* changed or removed.
C14_AppendOnly ==
    /\ [](pc = "sink" /\ proc.sinks > 0 =>
            /\ disk.exists
            /\ disk.rows = <<HeaderRow>> \o [n \in DOMAIN arg |-> SinkRow(arg[n])])
    /\ [][pc = "sink" =>
            /\ Len(disk.rows) <= Len(disk'.rows)
            /\ SubSeq(disk'.rows, 1, Len(disk.rows)) = disk.rows]_vars

\* a second sink made on the file after rows were written, and a row
\* written after it
C14_Witness ==
    /\ pc = "sink"
    /\ proc.sinks = 2
    /\ Len(arg) = 3
    /\ Len(disk.rows) = 4
    /\ arg[1].relevance = Bad
    /\ disk.rows[2].relevance = Empty

----------------------------------------------------------------------------
(* sophism_report.py: taxonomy normalisation of the detected sophisms      *)

\* [a-z0-9]
LowerAlnum == {"a", "b", "c", "d", "e", "f", "g", "h", "i", "j", "k", "l", "m",
               "n", "o", "p", "q", "r", "s", "t", "u", "v", "w", "x", "y", "z",
               "0", "1", "2", "3", "4", "5", "6", "7", "8", "9"}

\* lines 168-172 (the names of the model carry no accent)
canon_key(s) ==
    LET low == lower(strip(s))
    IN  norm_space([n \in DOMAIN low |-> IF low[n] \in LowerAlnum THEN low[n] ELSE SP])

\* difflib find_longest_match: the longest block a[i..i+k-1] = b[j..j+k-1],
\* the one that starts earliest in a, then earliest in b
LongestMatch(a, b) ==
    LET blocks == {m \in (1..Len(a)) \X (1..Len(b)) \X (1..Len(a)) :
                      /\ m[1] + m[3] - 1 <= Len(a)
                      /\ m[2] + m[3] - 1 <= Len(b)
                      /\ SubSeq(a, m[1], m[1] + m[3] - 1) = SubSeq(b, m[2], m[2] + m[3] - 1)}
    IN  IF blocks = {} THEN <<0, 0, 0>>
        ELSE CHOOSE m \in blocks : \A o \in blocks :
                \/ m[3] > o[3]
                \/ m[3] = o[3] /\ m[1] < o[1]
                \/ m[3] = o[3] /\ m[1] = o[1] /\ m[2] <= o[2]

\* difflib get_matching_blocks: the number of matched characters
RECURSIVE Matches(_, _)
Matches(a, b) ==
    LET m == LongestMatch(a, b)
    IN  IF m[3] = 0 THEN 0
        ELSE m[3] + Matches(SubSeq(a, 1, m[1] - 1), SubSeq(b, 1, m[2] - 1))
                  + Matches(SubSeq(a, m[1] + m[3], Len(a)), SubSeq(b, m[2] + m[3], Len(b)))

\* the cutoff of get_close_matches at lines 260 and 208, in percent
CloseCutoff == 78

\* SequenceMatcher.ratio() >= cutoff, the ratio being 2 * M / T; two empty
\* texts have ratio 1
IsClose(word, choice) ==
    \/ Len(word) + Len(choice) = 0
    \/ /\ Len(word) + Len(choice) > 0
       /\ 200 * Matches(choice, word) >= CloseCutoff * (Len(word) + Len(choice))

\* a / b < c / d for the ratios 2 * M / T
RatioLess(word, x, y) ==
    LET tx == Len(word) + Len(x)
        ty == Len(word) + Len(y)
    IN  Matches(x, word) * ty < Matches(y, word) * tx

\* difflib.get_close_matches(word, choices, n = 1, cutoff): the choice with
\* the best ratio, of equal ratios the greatest text
get_close_matches(word, choices) ==
    LET close == {x \in choices : IsClose(word, x)}
    IN  IF close = {} THEN <<>>
        ELSE <<CHOOSE x \in close : \A y \in close \ {x} :
                   \/ RatioLess(word, y, x)
                   \/ ~RatioLess(word, x, y) /\ TextLess(y, x)>>

\* lines 220-249: canon_map and names_set of the taxonomy file
load_taxonomy_yaml(data) ==
    LET RECURSIVE walk(_, _)
        walk(n, cm) ==
            IF n > Len(data) THEN cm
            ELSE LET item == data[n]
                     keys == {canon_key(item.name)}
                                 \cup {canon_key(strip(a)) : a \in item.aliases}
                     hit == [name |-> item.name, category |-> item.category]
                 IN  walk(n + 1, [k \in DOMAIN cm \cup (keys \ {<<>>}) |->
                                     IF k \in keys THEN hit ELSE cm[k]])
    IN  [canon_map |-> walk(1, EmptyDict),
         names_set |-> {data[n].name : n \in DOMAIN data}]

\* a or b of Python on texts
Or(a, b) == IF a # <<>> THEN a ELSE b

\* lines 253-266
normalize_to_taxo(name, category, canon_map, names_set) ==
    LET key == canon_key(name)
        match == get_close_matches(name, names_set)
    IN  IF key \in DOMAIN canon_map
        THEN [name |-> canon_map[key].name,
              category |-> Or(canon_map[key].category, category)]
        ELSE IF match # <<>> /\ canon_key(match[1]) \in DOMAIN canon_map
        THEN LET canon_hit == canon_map[canon_key(match[1])]
             IN  [name |-> canon_hit.name, category |-> Or(canon_hit.category, category)]
        ELSE [name |-> name, category |-> category]

Unclassified == [name |-> <<"Autre / Non classe">>, category |-> <<"Autre">>]

\* line 471: mapped = (nm2 != nm)
Mapped(nm, nm2) == nm2 # nm

\* lines 467-476: the body of the loop over the sophisms detected
NormalizeSophism(s, taxonomy_mode, taxo) ==
    LET nm == strip(s.name)
        ct == strip(s.category)
        found == normalize_to_taxo(nm, ct, taxo.canon_map, taxo.names_set)
        mapped == Mapped(nm, found.name)
        kept == IF taxonomy_mode = "strict" /\ ~mapped THEN Unclassified ELSE found
    IN  [original_name |-> nm, name |-> kept.name, category |-> Or(kept.category, ct)]

\* longest sophism name the model returns
MaxNameLen == 3

NameChars == {"P", "a", "t", "b", " "}

\* the taxonomy file: two entries, the first with an alias and a category
TaxoData ==
    <<[name |-> <<"P", "a", "t">>, category |-> <<"c">>, aliases |-> {<<"t", "-", "b">>}],
      [name |-> <<"P", "a", "b">>, category |-> <<>>, aliases |-> {}]>>

TaxoInit ==
    /\ pc = "taxo_call"
    /\ \E n \in 0..MaxNameLen : \E nm \in [1..n -> NameChars] :
          \E ct \in {<<>>, <<"x">>} : \E mode \in {"normalize", "strict"} :
              arg = [name |-> nm, category |-> ct, taxonomy_mode |-> mode]
    /\ ret = None
    /\ PipelineIdle
    /\ DiskIdle

\* lines 461-476
AnalyzeNormalise ==
    /\ pc = "taxo_call"
    /\ ret' = NormalizeSophism(arg, arg.taxonomy_mode, load_taxonomy_yaml(TaxoData))
    /\ pc' = "taxo_done"
    /\ UNCHANGED <<arg, expanded, inputs, aggr, facts_master_rows, topics, disk, proc>>

TaxoNext == AnalyzeNormalise

TaxoSpec == TaxoInit /\ [][TaxoNext]_vars

\* the taxonomy entries the name maps to: by its key (canonical name or
\* alias) or as the close match of a canonical name
EntryOf(nm) ==
    LET taxo == load_taxonomy_yaml(TaxoData)
        match == get_close_matches(nm, taxo.names_set)
    IN  IF canon_key(nm) \in DOMAIN taxo.canon_map
        THEN {taxo.canon_map[canon_key(nm)].name}
        ELSE IF match # <<>> THEN {match[1]} ELSE {}

\* C15: in mode "strict" a sophism is relabelled "Autre / Non classe" only
\* when its name maps to no taxonomy entry (canonical name, alias or close
\* match), and a sophism whose name maps to an entry ends with the
\* canonical name of that entry.
C15_StrictRelabelsOnlyUnmapped ==
    pc = "taxo_done" /\ arg.taxonomy_mode = "strict" =>
        /\ ret.name = Unclassified.name => EntryOf(strip(arg.name)) = {}
        /\ EntryOf(strip(arg.name)) # {} => ret.name \in EntryOf(strip(arg.name))

----------------------------------------------------------------------------
(* merge_email_whatsapp.py and parse_whatsapp.py: merging of message       *)
(* blocks into emails_YYYY.txt                                             *)
(*                                                                         *)
(* A file is a sequence of tokens: "M" is the opening "=== MESSAGE ===" up *)
(* to "Date : ", "S" the line "---", "F" the closing "=== FIN ===", "NN"   *)
(* the blank line written after a block; a date, a header (From, To and    *)
(* Subject) and a character of a body are one token each.                  *)

\* largest number of messages of the origin folder
MaxMsgs == 3

\* largest number of runs of the two scripts together
MaxMergeRuns == 3

\* the years kept, lines 9-10 and 8-9
LIMIT_YEAR_FROM == 2000
LIMIT_YEAR_TO == 2030

\* the dates of the model are days of 1999, 2023 and 2024
YearsOfDates == <<1999, 2023, 2024>>

YearOf(date) == YearsOfDates[date + 1]

TargetYears == {2023, 2024}

\* lines 64-74 and 53-62: the block written for a message
Block(msg) ==
    <<"M", Digits[msg.date + 1], msg.head, "S">> \o msg.body \o <<"F">>

\* output in f.read()
IsInfix(part, text) ==
    \E n \in 0..(Len(text) - Len(part)) : SubSeq(text, n + 1, n + Len(part)) = part

\* a variant of the writing that does not look at the file
AppendAlways(files, msg) ==
    LET year == YearOf(msg.date)
    IN  IF year < LIMIT_YEAR_FROM \/ year > LIMIT_YEAR_TO THEN files
        ELSE [files EXCEPT ![year] = @ \o Block(msg) \o <<"NN">>]

\* lines 60-84 (parse_whatsapp 49-72, write_email 49-57 of
\* only_fetch_email_y.mandaba1.py): the block is appended to the file of its
\* year unless the file holds its text
WriteIfAbsent(files, msg) ==
    LET year == YearOf(msg.date)
    IN  IF year < LIMIT_YEAR_FROM \/ year > LIMIT_YEAR_TO THEN files
        ELSE IF IsInfix(Block(msg), files[year]) THEN files
        ELSE [files EXCEPT ![year] = @ \o Block(msg) \o <<"NN">>]

RECURSIVE WriteAll(_, _)
WriteAll(files, msgs) ==
    IF msgs = <<>> THEN files
    ELSE WriteAll(WriteIfAbsent(files, Head(msgs)), Tail(msgs))

\* line 55: all_messages.sort(key = date), stable
RECURSIVE SortedByDate(_)
SortedByDate(msgs) ==
    IF msgs = <<>> THEN <<>>
    ELSE LET first == CHOOSE n \in DOMAIN msgs :
                          /\ \A m \in DOMAIN msgs : msgs[n].date <= msgs[m].date
                          /\ \A m \in 1..(n - 1) : msgs[n].date < msgs[m].date
             rest == SubSeq(msgs, 1, first - 1) \o SubSeq(msgs, first + 1, Len(msgs))
         IN  <<msgs[first]>> \o SortedByDate(rest)

\* lines 34-86
merge_all_messages(files, msgs) == WriteAll(files, SortedByDate(msgs))

\* lines 29-72: the lines of the export in file order, each a one-line
\* message to Yannick with the subject WhatsApp
parse_whatsapp(files, lines) ==
    WriteAll(files, [n \in DOMAIN lines |->
                        [date |-> lines[n].date, head |-> "w", body |-> lines[n].message]])

\* the messages extract_messages_from_file may return: a message, one with
\* another body, one whose body quotes the block of the first, one of
\* another year, one of a year not kept, and one equal to a WhatsApp block
OriginMessages ==
    {[date |-> 1, head |-> "h", body |-> <<"a">>],
     [date |-> 1, head |-> "h", body |-> <<"b", "M", "1", "h", "S", "a">>],
     [date |-> 2, head |-> "h", body |-> <<"a">>],
     [date |-> 0, head |-> "h", body |-> <<"a">>],
     [date |-> 1, head |-> "w", body |-> <<"a">>]}

WhatsappExports ==
    {<<>>,
     <<[date |-> 1, message |-> <<"a">>]>>,
     <<[date |-> 2, message |-> <<"a">>], [date |-> 1, message |-> <<"a">>],
       [date |-> 2, message |-> <<"a">>]>>}

\* the target folder is empty; arg holds the inputs, which do not change
MergeInit ==
    /\ pc = "merge"
    /\ \E n \in 0..MaxMsgs : \E msgs \in [1..n -> OriginMessages] :
          \E lines \in WhatsappExports :
              arg = [origin |-> msgs, whatsapp |-> lines]
    /\ ret = None
    /\ PipelineIdle
    /\ disk = [year \in TargetYears |-> <<>>]
    /\ proc = [merges |-> 0, parses |-> 0]

\* one run of merge_all_messages; proc counts the runs
MergeRun ==
    /\ pc = "merge"
    /\ proc.merges + proc.parses < MaxMergeRuns
    /\ disk' = merge_all_messages(disk, arg.origin)
    /\ proc' = [proc EXCEPT !.merges = @ + 1]
    /\ UNCHANGED <<pc, arg, ret, expanded, inputs, aggr, facts_master_rows, topics>>

\* one run of parse_whatsapp
WhatsappRun ==
    /\ pc = "merge"
    /\ proc.merges + proc.parses < MaxMergeRuns
    /\ disk' = parse_whatsapp(disk, arg.whatsapp)
    /\ proc' = [proc EXCEPT !.parses = @ + 1]
    /\ UNCHANGED <<pc, arg, ret, expanded, inputs, aggr, facts_master_rows, topics>>

MergeNext == MergeRun \/ WhatsappRun

MergeSpec == MergeInit /\ [][MergeNext]_vars

\* the blocks of a file: the texts between the blank lines
RECURSIVE BlocksOf(_, _)
BlocksOf(text, cur) ==
    IF text = <<>> THEN <<>>
    ELSE IF Head(text) = "NN" THEN <<cur>> \o BlocksOf(Tail(text), <<>>)
    ELSE BlocksOf(Tail(text), Append(cur, Head(text)))

\* C16: from an empty target folder and over the same inputs, after any
\* number of runs of merge_all_messages and parse_whatsapp every file holds
\* each distinct message block at most once, and a run of a script that has
\* already run appends nothing.
C16_MergeIdempotent ==
    /\ [](pc = "merge" =>
            \A year \in TargetYears :
                LET blocks == BlocksOf(disk[year], <<>>)
                IN  \A n, m \in DOMAIN blocks : blocks[n] = blocks[m] => n = m)
    /\ [][pc = "merge" /\ ((proc.merges > 0 /\ proc'.merges > proc.merges)
                            \/ (proc.parses > 0 /\ proc'.parses > proc.parses))
             => disk' = disk]_vars

\* both scripts have run, one of them twice, on an origin folder that holds
\* a message twice and a message equal to a WhatsApp one
C16_Witness ==
    /\ pc = "merge"
    /\ proc.merges = 2
    /\ proc.parses = 1
    /\ \E n, m \in DOMAIN arg.origin : n # m /\ arg.origin[n] = arg.origin[m]
    /\ \E n \in DOMAIN arg.origin : arg.origin[n].head = "w"
    /\ arg.whatsapp # <<>>
    /\ Len(BlocksOf(disk[2023], <<>>)) = 2

----------------------------------------------------------------------------
(* relations/Maryvonne/enjeu_annotator.py: consolidate_and_update          *)
(*                                                                         *)
(* The enjeux dictionary is the sequence of its records in insertion       *)
(* order, which is the order of the rows of enjeux_index.csv. Labels are   *)
(* written with unaccented letters, "-" and spaces.                        *)

\* largest number of records of the dictionary before the first call
MaxEntries == 2

\* largest number of labels proposed in one call
MaxProposals == 2

\* largest number of calls
MaxCalls == 2

\* lines 98-103: NFD leaves the letters of the labels as they are
_deaccent_lower(s) == IF s = <<>> THEN <<>> ELSE strip(lower(s))

\* lines 105-113
_normalize_label(s) ==
    IF s = <<>> THEN <<>>
    ELSE LET d == _deaccent_lower(s)
         IN  norm_space([n \in DOMAIN d |->
                            IF d[n] \in {"/", "-", "_"} THEN SP
                            ELSE IF ~IsWordChar(d[n]) /\ ~IsSpace(d[n]) THEN SP
                            ELSE d[n]])

\* lines 115-116: set(_normalize_label(s).split())
_token_set(s) ==
    LET t == _normalize_label(s)
    IN  {SubSeq(t, lo, hi) : <<lo, hi>> \in
            {w \in (DOMAIN t) \X (DOMAIN t) :
                /\ w[1] <= w[2]
                /\ \A n \in w[1]..w[2] : t[n] # SP
                /\ w[1] = 1 \/ t[w[1] - 1] = SP
                /\ w[2] = Len(t) \/ t[w[2] + 1] = SP}}

\* lines 118-123: the quotient as a fraction
_jaccard(a, b) ==
    IF a = {} \/ b = {} THEN [num |-> 0, den |-> 1]
    ELSE [num |-> Cardinality(a \cap b), den |-> Cardinality(a \cup b)]

\* score > best[0]
ScoreAbove(x, y) == x.num * y.den > y.num * x.den

\* line 375: best[0] >= 0.75
AtLeastThreeQuarters(x) == 4 * x.num >= 3 * x.den

\* lines 322-341: the labels of the dictionary with their index, etiquette
\* first, in the order of the records; exact_map and fuzzy_list hold those
\* whose normalised label is not empty
RECURSIVE LabelsOfDict(_)
LabelsOfDict(dict) ==
    IF dict = <<>> THEN <<>>
    ELSE LET rec == Head(dict)
         IN  <<[idx |-> rec.index, lab |-> rec.etiquette]>>
                \o [n \in DOMAIN rec.synonymes |-> [idx |-> rec.index, lab |-> rec.synonymes[n]]]
                \o LabelsOfDict(Tail(dict))

build_existing_index(dict) ==
    SelectSeq(LabelsOfDict(dict), LAMBDA e : _normalize_label(e.lab) # <<>>)

\* mapped_idx: Python's None, or an index
NoIndex == [found |-> FALSE, idx |-> 0]

AnIndex(idx) == [found |-> TRUE, idx |-> idx]

\* exact_map.get(norm_label): the entry written last wins
ExactGet(index, norm_label) ==
    LET hits == {n \in DOMAIN index : _normalize_label(index[n].lab) = norm_label}
    IN  IF hits = {} THEN NoIndex
        ELSE AnIndex(index[CHOOSE n \in hits : \A m \in hits : m <= n].idx)

\* lines 369-373: the first entry of fuzzy_list with the greatest score
RECURSIVE BestFuzzy(_, _, _)
BestFuzzy(index, ts, best) ==
    IF index = <<>> THEN best
    ELSE LET score == _jaccard(ts, _token_set(Head(index).lab))
         IN  BestFuzzy(Tail(index), ts,
                       IF ScoreAbove(score, best.score)
                       THEN [score |-> score, idx |-> AnIndex(Head(index).idx)]
                       ELSE best)

\* if mapped_idx: / if not mapped_idx:
Truthy(x) == x.found /\ x.idx # 0

\* lines 361-377: the index the label is mapped to
MappedIdx(index, norm_label, first_label) ==
    LET exact == ExactGet(index, norm_label)
        best == BestFuzzy(index, _token_set(first_label),
                          [score |-> [num |-> 0, den |-> 1], idx |-> NoIndex])
    IN  IF Truthy(exact) THEN [idx |-> exact, action |-> "mapped_existing"]
        ELSE IF AtLeastThreeQuarters(best.score)
             THEN [idx |-> best.idx, action |-> "mapped_fuzzy"]
             ELSE [idx |-> exact, action |-> ""]

\* code-point order of the characters of the labels
LabelOrder == <<" ", "-", "A", "a", "b", "c", "f">>

RECURSIVE LabelLess(_, _)
LabelLess(a, b) ==
    IF b = <<>> THEN FALSE
    ELSE IF a = <<>> THEN TRUE
    ELSE IF Head(a) = Head(b) THEN LabelLess(Tail(a), Tail(b))
    ELSE \E n, m \in DOMAIN LabelOrder :
            n < m /\ LabelOrder[n] = Head(a) /\ LabelOrder[m] = Head(b)

\* sorted(...)
RECURSIVE SortedLabels(_)
SortedLabels(S) ==
    IF S = {} THEN <<>>
    ELSE LET least == CHOOSE a \in S : \A b \in S \ {a} : LabelLess(a, b)
         IN  <<least>> \o SortedLabels(S \ {least})

\* lines 379-403: a label mapped to nothing is appended with the next index
RECURSIVE ConsolidateLoop(_, _, _, _, _, _)
ConsolidateLoop(index, labels, norms, dict, current_max, rows_review) ==
    IF norms = <<>> THEN [dict |-> dict, rows_review |-> rows_review]
    ELSE LET norm_label == Head(norms)
             first_label == SortedLabels({l \in labels : _normalize_label(l) = norm_label})[1]
             hit == MappedIdx(index, norm_label, first_label)
         IN  IF Truthy(hit.idx)
             THEN ConsolidateLoop(index, labels, Tail(norms), dict, current_max,
                      Append(rows_review, [norm_label |-> norm_label,
                                           mapped_index |-> hit.idx.idx, action |-> hit.action]))
             ELSE ConsolidateLoop(index, labels, Tail(norms),
                      Append(dict, [index |-> current_max + 1, etiquette |-> first_label,
                                    synonymes |-> <<>>]),
                      current_max + 1,
                      Append(rows_review, [norm_label |-> norm_label,
                                           mapped_index |-> current_max + 1,
                                           action |-> "appended_new"]))

\* max((k for k in enjeux_dict.keys()), default = 0)
MaxKey(dict) ==
    IF dict = <<>> THEN 0
    ELSE CHOOSE k \in {dict[n].index : n \in DOMAIN dict} :
            \A n \in DOMAIN dict : dict[n].index <= k

\* lines 343-432, with AUTO_APPEND_NEW = True; labels is the set of the
\* labels of proposals_global
consolidate_and_update(dict, labels) ==
    ConsolidateLoop(build_existing_index(dict), labels,
                    SortedLabels({_normalize_label(l) : l \in labels}),
                    dict, MaxKey(dict), <<>>)

\* int(idx_str) of load_enjeux_csv accepts any integer
IndexValues == {-1, 0, 2}

DictLabels == {<<"a", " ", "b", " ", "c">>}

DictSynonyms == {<<>>, << <<"b", " ", "a">> >>}

ProposedLabels ==
    {<<"a", " ", "b", " ", "c">>, <<"A", "-", "b">>, <<"b", " ", "a">>, <<"f">>,
     <<"a", " ", "b", " ", "c", " ", "f">>, <<"a", " ", "c">>}

\* the dictionaries load_enjeux_csv returns: one record for an index
EnjeuxDicts ==
    UNION {{d \in [1..n -> [index : IndexValues, etiquette : DictLabels,
                            synonymes : DictSynonyms]] :
               \A i, j \in 1..n : d[i].index = d[j].index => i = j} : n \in 0..MaxEntries}

ConsInit ==
    /\ pc = "consolidate"
    /\ arg = {}
    /\ ret = <<>>
    /\ PipelineIdle
    /\ disk \in EnjeuxDicts
    /\ proc = [calls |-> 0]

\* one call of consolidate_and_update; arg is the set of proposed labels,
\* ret the rows of the review
Consolidate ==
    /\ pc = "consolidate"
    /\ proc.calls < MaxCalls
    /\ \E labels \in SUBSET ProposedLabels :
          /\ labels # {}
          /\ Cardinality(labels) <= MaxProposals
          /\ LET out == consolidate_and_update(disk, labels)
             IN  /\ disk' = out.dict
                 /\ ret' = out.rows_review
                 /\ arg' = labels
    /\ proc' = [proc EXCEPT !.calls = @ + 1]
    /\ UNCHANGED <<pc, expanded, inputs, aggr, facts_master_rows, topics>>

ConsNext == Consolidate

ConsSpec == ConsInit /\ [][ConsNext]_vars

\* the label matches an entry of the dictionary: the same normalised text as
\* an etiquette or a synonym, or a Jaccard similarity of at least 0.75
MatchesEntry(dict, label) ==
    \E n \in DOMAIN LabelsOfDict(dict) :
        LET lab == LabelsOfDict(dict)[n].lab
        IN  /\ _normalize_label(lab) # <<>>
            /\ \/ _normalize_label(lab) = _normalize_label(label)
               \/ AtLeastThreeQuarters(_jaccard(_token_set(label), _token_set(lab)))

\* C17: a call of consolidate_and_update adds a label only if it matches no
\* entry of the dictionary it was called with, whatever the indexes of the
\* dictionary; an added entry has an index greater than every index of that
\* dictionary, and the indexes stay unique.
C17_AddsOnlyUnmatched ==
    [][pc = "consolidate" =>
          /\ SubSeq(disk', 1, Len(disk)) = disk
          /\ \A n \in (Len(disk) + 1)..Len(disk') :
                /\ ~MatchesEntry(disk, disk'[n].etiquette)
                /\ \A m \in DOMAIN disk : disk'[n].index > disk[m].index
          /\ \A n, m \in DOMAIN disk' : disk'[n].index = disk'[m].index => n = m]_vars

----------------------------------------------------------------------------
(* main() on the same event rows in another order                          *)

\* largest number of runs of main() on one set of rows
MaxOrders == 2

\* the values of a run that do not name a position in the file: the status
\* of every fact, the veracity and strength of every line (a line is known
\* by the event row it comes from and the fact text it cites), and the
\* totals and net score of every topic
RunValues(rws, out) ==
    [fact_status |-> {<<out.facts_master_rows[n].fact_ref_id,
                        out.facts_master_rows[n].status_pct>> :
                          n \in DOMAIN out.facts_master_rows},
     line_strength |-> {<<rws[out.arg_lines[n].row], out.arg_lines[n].cited,
                          out.arg_lines[n].fact_veracity_pct, out.arg_lines[n].strength>> :
                          n \in DOMAIN out.arg_lines},
     topic_totals |-> {<<out.topics[n].topic_id,
                         out.topics[n].pro_total_strength, out.topics[n].con_total_strength,
                         out.topics[n].pro_total_tuned, out.topics[n].con_total_tuned,
                         out.topics[n].net_score>> : n \in DOMAIN out.topics}]

\* arg holds the rows of the events file and the seed and tuning files
OrderInit ==
    /\ pc = "order"
    /\ \E n \in 1..MaxEvents : \E rws \in [1..n -> EventRows] : \E f \in InputFiles :
          arg = [rows |-> rws, seed_file |-> f[1], argref_tuning |-> f[2]]
    /\ ret = <<>>
    /\ PipelineIdle
    /\ DiskIdle

\* main() is run on the rows of arg in some order; ret collects the values
\* of the runs
RunPermuted ==
    /\ pc = "order"
    /\ Len(ret) < MaxOrders
    /\ \E order \in Permutations(DOMAIN arg.rows) :
          LET rws == [n \in DOMAIN arg.rows |-> arg.rows[order[n]]]
          IN  ret' = Append(ret, RunValues(rws, RunMain(rws, arg.seed_file,
                                                        arg.argref_tuning)))
    /\ UNCHANGED <<pc, arg, expanded, inputs, aggr, facts_master_rows, topics, disk, proc>>

OrderNext == RunPermuted

OrderSpec == OrderInit /\ [][OrderNext]_vars

\* C18: the fact statuses, the line strengths, the pro and con totals of
\* every topic and its net score are the same for every order of the same
\* event rows.
C18_OrderIndependent ==
    pc = "order" => \A n, m \in DOMAIN ret : ret[n] = ret[m]

----------------------------------------------------------------------------
(* main() on events that carry hidden-topic hints (lines 228-229, 401-434) *)

\* the rows tried: on two topics, citing one fact, two facts or none, with
\* no hint, a hint of confidence 0.9, or a hint whose confidence is no number
HintedRows ==
    {AsRow([BaseEvent EXCEPT !.topic_name = name, !.fact_texts = facts, !.hint = hint]) :
        name \in {<<"T", "a">>, <<"T", "b">>},
        facts \in {tF, <<"f", "|", "|", " ", "g">>, <<>>},
        hint \in {[hidden_topic_hint |-> <<>>, hidden_topic_confidence |-> Empty],
                  [hidden_topic_hint |-> <<"h">>, hidden_topic_confidence |-> Num(900)],
                  [hidden_topic_hint |-> <<"h", " ">>, hidden_topic_confidence |-> Bad]}}

HintInit ==
    /\ pc = "hint_call"
    /\ \E n \in 1..MaxEvents : arg \in [1..n -> HintedRows]
    /\ ret = None
    /\ PipelineIdle
    /\ DiskIdle

\* main() without seed and tuning files; ret holds the lines and the topics
RunHinted ==
    /\ pc = "hint_call"
    /\ LET out == RunMain(arg, <<>>, EmptyDict)
       IN  ret' = [arg_lines |-> out.arg_lines, topics |-> out.topics]
    /\ pc' = "hint_done"
    /\ UNCHANGED <<disk, proc, arg, expanded, inputs, aggr, facts_master_rows, topics>>

HintNext == RunHinted

HintSpec == HintInit /\ [][HintNext]_vars

\* the confidence a cell counts for, in thousandths: 0.0 when the cell is
\* missing or is no number
ConfidenceOf(cell) == IF cell.k = "num" THEN cell.v ELSE 0

\* the rows of a topic that carry a hint
HintedOn(rws, topic_id) ==
    {i \in DOMAIN rws : /\ derive_topic_id(norm_space(rws[i].topic_name)) = topic_id
                        /\ strip(rws[i].hidden_topic_hint) # <<>>}

\* the ratio reported for every topic is the share of confidences >= 0.50
\* rounded to 3 decimals, when the event of row i counts copies[i] times,
\* and 0 when nothing counts
RatioCounts(copies) ==
    \A k \in DOMAIN ret.topics :
        LET t == ret.topics[k]
            hinted == HintedOn(arg, t.topic_id)
            all == SumOver(hinted, [i \in hinted |-> copies[i]])
            high == SumOver(hinted, [i \in hinted |->
                        IF ConfidenceOf(arg[i].hidden_topic_confidence) >= 500
                        THEN copies[i] ELSE 0])
            gap == 1000 * high - t.open_ratio_hidden_hints * all
        IN  IF all = 0 THEN t.open_ratio_hidden_hints = 0
            ELSE -all <= 2 * gap /\ 2 * gap <= all

\* C22 as stated: an event carrying a non-empty hint and citing k facts
\* counts k times in the visibility ratio of its topic, an event with an
\* empty hint counts for nothing, and a missing or non-numeric confidence
\* counts as 0.0.
C22_HintsPerFact ==
    pc = "hint_done" =>
        RatioCounts([i \in DOMAIN arg |-> Cardinality(FactSegments(arg[i].fact_texts))])

\* C22: the visibility ratio of a topic counts the confidence of an event
\* once per argument line of the event, so k times for k >= 1 facts cited
\* and once for an event that cites no fact (the line of the pseudo-fact);
\* an event with an empty hint counts for nothing, and a missing or
\* non-numeric confidence counts as 0.0.
C22_HintsPerLine ==
    pc = "hint_done" => RatioCounts([i \in DOMAIN arg |-> LinesDue(arg[i])])

\* on one topic, an event with a hint of confidence 0.9 citing two facts and
\* an event citing one fact with a hint whose confidence is no number: two
\* of the three confidences are high
C22_Witness ==
    /\ pc = "hint_done"
    /\ Len(arg) = 2
    /\ arg[1].topic_name = arg[2].topic_name
    /\ arg[1].fact_texts = <<"f", "|", "|", " ", "g">>
    /\ arg[1].hidden_topic_confidence = Num(900)
    /\ arg[2].fact_texts = tF
    /\ arg[2].hidden_topic_hint # <<>>
    /\ arg[2].hidden_topic_confidence = Bad
    /\ ret.topics[1].open_ratio_hidden_hints = 667

-----------------------------------------------------------------------------
(* fetch_email.py: the retrying IMAP wrappers safe_uid_search and          *)
(* safe_uid_fetch, and the reconnection imap_connect they call             *)

\* range(3): the number of turns of the retry loop
RetryTurns == 3

\* line 22 and the setting the comment of line 22 offers
ImapFolders == {"", "INBOX", "[Gmail]/All Mail"}

\* what discover_all_mail_folder finds: nothing, or the \All folder
AutoAll == {"", "[Gmail]/All Mail"}

\* lines 159-165: the folders to try, in order, none twice
folder_candidates(imap_folder, auto_all) ==
    LET a == IF imap_folder # "" THEN <<imap_folder>> ELSE <<>>
        b == IF auto_all # "" /\ \A i \in DOMAIN a : a[i] # auto_all
             THEN Append(a, auto_all) ELSE a
    IN  IF \A i \in DOMAIN b : b[i] # "INBOX" THEN Append(b, "INBOX") ELSE b

\* the answers of the server to the SELECT of each candidate: a status, or
\* an exception ("exc")
SelectAnswers == {"OK", "NO", "exc"}

\* lines 167-177: the first candidate whose SELECT answers OK, 0 when none
RECURSIVE FirstSelected(_, _)
FirstSelected(answers, i) ==
    IF i > Len(answers) THEN 0
    ELSE IF answers[i] = "OK" THEN i
    ELSE FirstSelected(answers, i + 1)

\* lines 152-179: a new connection on the first folder that can be selected;
\* raises when the connection or the login fails (lines 153-157, nothing
\* catches it) and when no folder can be selected (line 179)
imap_connect(imap_folder, login, auto_all, answers) ==
    LET cands == folder_candidates(imap_folder, auto_all)
        k == FirstSelected(SubSeq(answers, 1, Len(cands)), 1)
    IN  IF login # "OK" THEN [raised |-> TRUE, exc |-> "error", folder |-> ""]
        ELSE IF k = 0 THEN [raised |-> TRUE, exc |-> "RuntimeError", folder |-> ""]
        ELSE [raised |-> FALSE, exc |-> "", folder |-> cands[k]]

\* lines 193: the fetch item of safe_uid_fetch; the search has its query
CommandOf(a) ==
    IF a.fn = "safe_uid_search" THEN "search"
    ELSE IF a.text_only THEN "fetch (BODY.PEEK[TEXT])" ELSE "fetch (RFC822)"

\* lines 190 and 200: what is returned when the loop runs out
LoopExhausted(fn) ==
    IF fn = "safe_uid_search"
    THEN [raised |-> FALSE, exc |-> "", typ |-> "NO", data |-> "[b'']"]
    ELSE [raised |-> FALSE, exc |-> "", typ |-> "NO", data |-> "None"]

Raised(exc) == [raised |-> TRUE, exc |-> exc, typ |-> "", data |-> ""]

\* a call of one of the two wrappers on an open connection; proc holds the
\* locals: the turn of the loop, the connection in hand, the commands sent
\* (each with the connection it went to), the aborts and the sleeps so far
RetryInit ==
    /\ pc = "retry_try"
    /\ arg \in [fn : {"safe_uid_search", "safe_uid_fetch"},
                text_only : BOOLEAN,
                IMAP_FOLDER : ImapFolders]
    /\ arg.fn = "safe_uid_search" => arg.text_only
    /\ ret = None
    /\ PipelineIdle
    /\ disk = EmptyDict
    /\ \E f \in {"INBOX", "[Gmail]/All Mail"} :
           proc = [attempt |-> 0, mail |-> [conn |-> 0, folder |-> f],
                   sent |-> <<>>, aborts |-> 0, sleeps |-> 0]

SendCommand == Append(proc.sent, [conn |-> proc.mail.conn, cmd |-> CommandOf(arg)])

\* lines 185-186 and 196: the command is answered, whatever the status, and
\* the answer is returned
UidReply ==
    /\ pc = "retry_try"
    /\ \E typ \in {"OK", "NO", "BAD"} :
           ret' = [raised |-> FALSE, exc |-> "", typ |-> typ,
                   data |-> IF typ = "OK" THEN "uids" ELSE "[None]"]
    /\ proc' = [proc EXCEPT !.sent = SendCommand]
    /\ pc' = "retry_done"
    /\ UNCHANGED <<arg, disk, expanded, inputs, aggr, facts_master_rows, topics>>

\* lines 187 and 197: the command ends in imaplib.IMAP4.abort
UidAbort ==
    /\ pc = "retry_try"
    /\ proc' = [proc EXCEPT !.sent = SendCommand, !.aborts = @ + 1]
    /\ pc' = "retry_except"
    /\ UNCHANGED <<arg, ret, disk, expanded, inputs, aggr, facts_master_rows, topics>>

\* the command ends in an exception that is no abort (imaplib.IMAP4.error,
\* OSError): no handler of lines 187 and 197 takes it
UidError ==
    /\ pc = "retry_try"
    /\ \E exc \in {"error", "OSError"} : ret' = Raised(exc)
    /\ proc' = [proc EXCEPT !.sent = SendCommand]
    /\ pc' = "retry_done"
    /\ UNCHANGED <<arg, disk, expanded, inputs, aggr, facts_master_rows, topics>>

\* lines 188-189 and 198-199, then the next turn of the loop or, after the
\* last one, lines 190 and 200: sleep, reconnect; an exception of
\* imap_connect leaves the function
SleepReconnect ==
    /\ pc = "retry_except"
    /\ \E login \in {"OK", "error"}, auto_all \in AutoAll,
          answers \in [1..3 -> SelectAnswers] :
           LET m == imap_connect(arg.IMAP_FOLDER, login, auto_all, answers)
               turn == proc.attempt + 1
           IN  IF m.raised
               THEN /\ ret' = Raised(m.exc)
                    /\ proc' = [proc EXCEPT !.sleeps = @ + 1]
                    /\ pc' = "retry_done"
               ELSE /\ proc' = [proc EXCEPT !.sleeps = @ + 1,
                                            !.attempt = turn,
                                            !.mail = [conn |-> proc.mail.conn + 1,
                                                      folder |-> m.folder]]
                    /\ IF turn < RetryTurns
                       THEN pc' = "retry_try" /\ ret' = ret
                       ELSE pc' = "retry_done" /\ ret' = LoopExhausted(arg.fn)
    /\ UNCHANGED <<arg, disk, expanded, inputs, aggr, facts_master_rows, topics>>

RetryNext == UidReply \/ UidAbort \/ UidError \/ SleepReconnect

RetrySpec == RetryInit /\ [][RetryNext]_vars

\* C23, first part: a call sends the IMAP command at most 3 times, each
\* abort is followed by one sleep, and each retry goes to a connection
\* opened after the abort.
C23_AtMostThreeCommands ==
    pc \in {"retry_try", "retry_except", "retry_done"} =>
        /\ Len(proc.sent) <= RetryTurns
        /\ proc.aborts - 1 <= proc.sleeps /\ proc.sleeps <= proc.aborts
        /\ \A i \in DOMAIN proc.sent : proc.sent[i].conn = i - 1

\* C23: safe_uid_search and safe_uid_fetch send the IMAP command at most 3
\* times, and a call that has seen only connection aborts never raises: it
\* ends, after the third abort, by returning the status "NO".
C23_ReturnsNoAfterAborts ==
    /\ C23_AtMostThreeCommands
    /\ (pc = "retry_done" /\ proc.aborts = Len(proc.sent)) =>
           /\ ~ret.raised
           /\ proc.aborts = RetryTurns
           /\ ret.typ = "NO"

\* three aborts, each followed by a reconnection that succeeds: "NO"
C23_Witness ==
    /\ pc = "retry_done"
    /\ proc.aborts = RetryTurns
    /\ Len(proc.sent) = RetryTurns
    /\ ret = LoopExhausted(arg.fn)

-----------------------------------------------------------------------------
(* sophism_report.py and sophismes_render_Maryvonne.py: what               *)
(* analyze_with_context makes of the reply of the LLM                      *)
(*                                                                         *)
(* A JSON value is a record [k, v]: k is "null", "num", "str", "list" or   *)
(* "dict" and v the number, the text, the sequence of items or the         *)
(* function from keys to values. A reply is a sequence of tokens: a JSON   *)
(* object or scalar as written by the LLM, a lone brace or bracket, white  *)
(* space ("ws") or other text ("junk").                                    *)

JNull == [k |-> "null", v |-> 0]
JNum(n) == [k |-> "num", v |-> n]
JStr(t) == [k |-> "str", v |-> t]
JList(q) == [k |-> "list", v |-> q]
JDict(f) == [k |-> "dict", v |-> f]
Tok(c) == [k |-> c, v |-> 0]

\* line 448: the sections of an analysis
Sections == {"sophisms", "real_matters", "fallacious_excuses", "valid_but_misused", "major_points"}

\* line 448
EmptyData == [s \in Sections |-> <<>>]

\* str.find("{") and str.rfind("}") over the tokens, 0 for -1: an object
\* opens and closes with a brace
FindOpen(raw) ==
    LET at == {i \in DOMAIN raw : raw[i].k \in {"{", "dict"}}
    IN  IF at = {} THEN 0 ELSE CHOOSE i \in at : \A j \in at : i <= j

RFindClose(raw) ==
    LET at == {i \in DOMAIN raw : raw[i].k \in {"}", "dict"}}
    IN  IF at = {} THEN 0 ELSE CHOOSE i \in at : \A j \in at : i >= j

\* lines 450-452: the text from the first "{" to the last "}", when the
\* first one stands before the last one (within one object it does)
BraceSlice(raw) ==
    LET start == FindOpen(raw)
        end == RFindClose(raw)
    IN  IF start # 0 /\ end # 0 /\ end >= start THEN SubSeq(raw, start, end) ELSE raw

\* json.loads: white space is skipped; a document is one scalar, one object
\* or a bracketed list of at most one of them; anything else is an error
json_loads(text) ==
    LET q == SelectSeq(text, LAMBDA t : t.k # "ws")
        IsValue(t) == t.k \in {"null", "num", "str", "dict"}
    IN  IF Len(q) = 1 /\ IsValue(q[1]) THEN [ok |-> TRUE, value |-> q[1]]
        ELSE IF Len(q) = 2 /\ q[1].k = "[" /\ q[2].k = "]"
        THEN [ok |-> TRUE, value |-> JList(<<>>)]
        ELSE IF Len(q) = 3 /\ q[1].k = "[" /\ IsValue(q[2]) /\ q[3].k = "]"
        THEN [ok |-> TRUE, value |-> JList(<<q[2]>>)]
        ELSE [ok |-> FALSE, value |-> JNull]

\* lines 449-459: the sections of the reply that are lists; an exception
\* (raw is None, the text is no JSON, the document is no object and has no
\* get) leaves every section empty
SecureJson(raw) ==
    IF raw.k = "none" THEN EmptyData
    ELSE LET parsed == json_loads(BraceSlice(raw.v))
         IN  IF ~parsed.ok \/ parsed.value.k # "dict" THEN EmptyData
             ELSE LET d == parsed.value.v
                  IN  [s \in Sections |->
                          IF s \in DOMAIN d /\ d[s].k = "list" THEN d[s].v ELSE <<>>]

\* Python truth of a JSON value, for "x or ''"
JTruthy(x) ==
    CASE x.k = "null" -> FALSE
      [] x.k = "num" -> x.v # 0
      [] x.k = "str" -> x.v # <<>>
      [] x.k = "list" -> x.v # <<>>
      [] x.k = "dict" -> DOMAIN x.v # {}

\* lines 467-468: (s.get(key) or "").strip() raises AttributeError when s is
\* no object, and when the value is true and no text
FieldFails(s, key) ==
    \/ s.k # "dict"
    \/ key \in DOMAIN s.v /\ JTruthy(s.v[key]) /\ s.v[key].k # "str"

FieldText(s, key) ==
    IF key \in DOMAIN s.v /\ JTruthy(s.v[key]) THEN s.v[key].v ELSE <<>>

\* lines 466-476: one turn of the loop; the object keeps its other keys
NormalizeItem(s, taxonomy_mode, taxo) ==
    LET out == NormalizeSophism([name |-> FieldText(s, "name"),
                                 category |-> FieldText(s, "category")],
                                taxonomy_mode, taxo)
    IN  JDict([key \in DOMAIN s.v \cup {"original_name", "name", "category"} |->
                  CASE key = "original_name" -> JStr(out.original_name)
                    [] key = "name" -> JStr(out.name)
                    [] key = "category" -> JStr(out.category)
                    [] OTHER -> s.v[key]])

\* lines 420-478: the analysis returned for a reply, or the exception that
\* leaves the function
analyze_with_context(raw, taxonomy_mode, taxo) ==
    LET data == SecureJson(raw)
        soph == data["sophisms"]
    IN  IF taxonomy_mode \notin {"normalize", "strict"}
        THEN [raised |-> FALSE, exc |-> "", data |-> data]
        ELSE IF \E i \in DOMAIN soph : FieldFails(soph[i], "name") \/ FieldFails(soph[i], "category")
        THEN [raised |-> TRUE, exc |-> "AttributeError", data |-> EmptyData]
        ELSE [raised |-> FALSE, exc |-> "",
              data |-> [data EXCEPT !["sophisms"] =
                           [i \in DOMAIN soph |-> NormalizeItem(soph[i], taxonomy_mode, taxo)]]]

\* largest number of tokens of a reply
MaxTokens == 3

\* the items a list of sophisms is given: objects with and without a
\* name, a name that is a number, a bare text, null
ReplyItems ==
    {JDict([key \in {"name", "category"} |->
               IF key = "name" THEN JStr(<<"P", "a", "t">>) ELSE JStr(<<"c">>)]),
     JDict([key \in {"why"} |-> JStr(<<"x">>)]),
     JDict([key \in {"name"} |-> JNum(5)]),
     JDict([key \in {"name"} |-> JNull]),
     JStr(<<"a", "d">>),
     JNull}

\* what the key "sophisms" of a reply holds
SophismValues ==
    {JList(<<>>), JNum(3), JStr(<<"s">>), JDict(EmptyDict)}
        \cup {JList(<<s>>) : s \in ReplyItems}

\* the other keys of a reply
OtherKeys ==
    {EmptyDict,
     [key \in {"major_points", "real_matters"} |->
         IF key = "major_points" THEN JStr(<<"p">>) ELSE JList(<<JNum(1)>>)],
     [key \in {"fallacious_excuses", "a"} |-> JNull]}

\* the objects a reply holds: with and without the key "sophisms"
ReplyObjects ==
    {JDict(o) : o \in OtherKeys}
        \cup {JDict([key \in DOMAIN o \cup {"sophisms"} |->
                        IF key = "sophisms" THEN sv ELSE o[key]]) :
                 sv \in SophismValues, o \in OtherKeys}

ReplyTokens ==
    {Tok("junk"), Tok("ws"), Tok("{"), Tok("}"), Tok("["), Tok("]"), JNum(12)}
        \cup ReplyObjects

\* message.content: None, or a text of up to MaxTokens tokens
Replies ==
    {[k |-> "none", v |-> <<>>]}
        \cup {[k |-> "text", v |-> t] : t \in UNION {[1..n -> ReplyTokens] : n \in 0..MaxTokens}}

ParseInit ==
    /\ pc = "parse_call"
    /\ arg \in [raw : Replies, taxonomy_mode : {"off", "hint", "normalize", "strict"}]
    /\ ret = None
    /\ PipelineIdle
    /\ DiskIdle

\* the reply of call_llm (line 442) is analysed
AnalyzeReply ==
    /\ pc = "parse_call"
    /\ ret' = analyze_with_context(arg.raw, arg.taxonomy_mode, load_taxonomy_yaml(TaxoData))
    /\ pc' = "parse_done"
    /\ UNCHANGED <<arg, expanded, inputs, aggr, facts_master_rows, topics, disk, proc>>

ParseNext == AnalyzeReply

ParseSpec == ParseInit /\ [][ParseNext]_vars

\* the object the text of a reply parses to, as a set: empty when the reply
\* is None, is no JSON or is no object
ParsedObject(raw) ==
    IF raw.k = "none" THEN {}
    ELSE LET parsed == json_loads(BraceSlice(raw.v))
         IN  IF parsed.ok /\ parsed.value.k = "dict" THEN {parsed.value.v} ELSE {}

\* the two fallbacks of C24, for the calls that return: a reply without a
\* JSON object gives five empty lists, and a section of a parsed reply that
\* is missing or no list is an empty list
C24_Fallbacks ==
    (pc = "parse_done" /\ ~ret.raised) =>
        /\ ParsedObject(arg.raw) = {} => ret.data = EmptyData
        /\ \A d \in ParsedObject(arg.raw) : \A s \in Sections :
               (s \notin DOMAIN d \/ d[s].k # "list") => ret.data[s] = <<>>

\* C24: analyze_with_context never fails on a malformed reply: a reply
\* without a parseable JSON object gives five empty lists, and when the
\* reply parses every section whose value is no list is an empty list.
C24_NeverFailsOnReply ==
    pc = "parse_done" => ~ret.raised /\ C24_Fallbacks

\* a reply between other text whose "sophisms" is no list comes back empty
C24_Witness ==
    /\ pc = "parse_done"
    /\ ~ret.raised
    /\ \E d \in ParsedObject(arg.raw) : "sophisms" \in DOMAIN d /\ d["sophisms"].k = "num"
    /\ Len(arg.raw.v) = 3
    /\ ret.data["sophisms"] = <<>>

====
